---- MODULE Spec2Model ----
(***************************************************************************)
(* State-machine model of the HIRA classification crawlers                 *)
(* (sokcho-kim/cg_suri_playwright).  The portal's classification modal is  *)
(* modelled as three grids (grdIdxDiv1/2/3): grid 1 lists the major        *)
(* classes, grid 2 the middle classes of the selected major row and grid 3 *)
(* the minor classes of the selected middle row.  Each crawler is one      *)
(* specification over the same variables:                                  *)
(*   SpecDeep    - hira_deep_classification_mapper.py                      *)
(*   SpecHier    - hira_hierarchical_crawler.py                            *)
(*   SpecMapper  - hira_classification_mapper.py                           *)
(*   SpecCrawler - hira_crawler.py                                         *)
(*   SpecDownload - SpecCrawler with the download callbacks                *)
(*   SpecClassification - hira_classification_crawler.py                   *)
(*   SpecFull    - hira_full_tree_crawler.py                               *)
(*   LiveFull    - SpecFull with weak fairness of the crawler's steps      *)
(*   SpecCascade - get_tree_elements with a call that raises               *)
(*   SpecScan    - get_level_items on grids with sparse row ids            *)
(*   SpecCap, LiveCap - get_level_items, pass by pass, on grids with row   *)
(*                 ids around the index cap                                *)
(*   SpecParse   - parse_korean_text on bounded texts                      *)
(*   SpecExcel   - read_excel_codes on bounded columns                     *)
(***************************************************************************)
EXTENDS Integers, Sequences, FiniteSets, TLC

VARIABLES
    tree,         \* content of the portal: rows of each grid per selection
    pages,        \* the browser context's pages, in creation order
    browser,      \* "none" | "open" | "closed"
    mainPage,     \* self.main_page (0 = None)
    pc,           \* control point of the running crawler
    page,         \* the popup page handle the traversal holds (0 = None)
    majorItems,   \* major_items of the running traversal
    middleItems,  \* middle_items
    minorItems,   \* minor_items
    iMaj,         \* position of the major loop (1-based)
    iMid,         \* position of the middle loop
    iMin,         \* position of the minor loop
    data,         \* classification_data / hierarchical_data / results
    saved,        \* rows written to the output file (<<>> = no file written)
    anomalies,    \* clicks so far that did not succeed as a standard click
    lastClick,    \* outcome of the latest node click
    ending,       \* how run ended: "" | "returned" | "raised" | "cancelled"
    closes,       \* popup pages the portal or the user closed so far
    attempts,     \* open_popup_page calls made by ensure_popup_page
    failures,     \* those of them that raised
    held,         \* the handle run holds while a callee works on page (0 = None)
    codes,        \* the seed codes read from the spreadsheet
    iCode,        \* position of the code loop (1-based)
    collected,    \* collected_paths of the full-tree crawler
    path,         \* texts of the nodes clicked on the way to the current depth
    snap,         \* per depth, the page as it was before the sibling being processed was clicked
    rawText,      \* the raw text handed to parse_korean_text
    parsed,       \* what parse_korean_text returned for it
    cells,        \* first column of the spreadsheet read by read_excel_codes
    noDataShown,  \* the portal shows its no-data message for the latest query
    downloads,    \* files saved to the download directory
    calls,        \* the waits and clicks of the latest fetch that returned, in order
    mapping,      \* code_classification_map: per seed code its classification path
    scanIndex,    \* index of a get_level_items call in progress
    scanFailures  \* consecutive_failures of that call

uiVars   == <<tree, pages, browser, mainPage>>
loopVars == <<majorItems, middleItems, minorItems, iMaj, iMid, iMin>>
sessVars == <<closes, attempts, failures, held>>
codeVars == <<codes, iCode>>
fullVars == <<collected, path, snap>>
fileVars == <<rawText, parsed, cells, noDataShown, downloads, calls, mapping>>
scanVars == <<scanIndex, scanFailures>>
vars     == <<tree, pages, browser, mainPage, pc, page, majorItems, middleItems,
              minorItems, iMaj, iMid, iMin, data, saved, anomalies, lastClick,
              ending, closes, attempts, failures, held, codes, iCode, collected, path,
              snap, rawText, parsed, cells, noDataShown, downloads,
              calls, mapping, scanIndex, scanFailures>>

(***************************************************************************)
(* Bounds of the model                                                     *)
(***************************************************************************)
MaxAnomalies == 1   \* clicks of one run that may fail their standard click
MaxCloses    == 1   \* popup pages closed from outside during one run
MaxCodes     == 2   \* seed codes of one run
MaxScanIndex == 12  \* largest slot id of a sparse major grid
MaxPopulated == 2   \* rows of a sparse major grid (the example grid apart)
MaxTextLen   == 4   \* characters of a raw text handed to the parser
MaxRows      == 3   \* data rows of the spreadsheet

(***************************************************************************)
(* The portal (external collaborator): slot contents and grid layouts      *)
(***************************************************************************)
MISSING == "<missing>"          \* no element with this slot id in the DOM
HIDDEN  == "<hidden>"           \* element exists but is not visible
\* The column-header label of skip_patterns, rendered as a row (the Korean
\* literal of the source, written in ASCII).
HeaderLabel == "<header-label>"

MajLayouts == {<<>>, <<"A">>, <<"A", "B">>, <<"A", "A">>}
MidLayouts == {<<>>, <<"m">>, <<"m", "n">>}
MinLayouts == {<<>>, <<"x", "y">>, <<"x", "x">>}
Slots == UNION {DOMAIN l : l \in MajLayouts \cup MidLayouts \cup MinLayouts}

WellFormed(t) ==
    \A s \in Slots :
        /\ s > Len(t.maj) => t.mid[s] = <<>>
        /\ \A u \in Slots : u > Len(t.mid[s]) => t.min[s][u] = <<>>

Trees == {t \in [maj : MajLayouts, mid : [Slots -> MidLayouts],
                 min : [Slots -> [Slots -> MinLayouts]]] : WellFormed(t)}

NewPage(kind) ==
    [kind |-> kind, open |-> TRUE, modal |-> FALSE,
     selMaj |-> 0, selMid |-> 0, selMin |-> 0, field |-> ""]

\* Rows grid g (1, 2, 3) of page record p currently renders.
Grid(p, g) ==
    IF ~p.open \/ ~p.modal THEN <<>>
    ELSE IF g = 1 THEN tree.maj
    ELSE IF g = 2 THEN (IF p.selMaj = 0 THEN <<>> ELSE tree.mid[p.selMaj])
    ELSE IF p.selMaj = 0 \/ p.selMid = 0 THEN <<>>
    ELSE tree.min[p.selMaj][p.selMid]

\* Slot numbers of the rows of a layout that exist and are visible, in order.
VisibleSlots(layout) ==
    SelectSeq([s \in 1..Len(layout) |-> s],
              LAMBDA s : layout[s] \notin {MISSING, HIDDEN})

\* The page after a click landed on slot s of grid g: the row is selected,
\* the deeper selections are dropped, and a grid-3 row fills the search field.
Clicked(p, g, s) ==
    IF g = 1 THEN [p EXCEPT !.selMaj = s, !.selMid = 0, !.selMin = 0]
    ELSE IF g = 2 THEN [p EXCEPT !.selMid = s, !.selMin = 0]
    ELSE [p EXCEPT !.selMin = s, !.field = Grid(p, 3)[s]]

(***************************************************************************)
(* Items and records                                                       *)
(***************************************************************************)
\* text: raw text; pg, grid, idx: the element reference (page, grid the
\* locator reads, position); slot, parent: where the row stood when read.
Item(text, pg, grid, idx, slot) ==
    [text |-> text, pg |-> pg, grid |-> grid, idx |-> idx, slot |-> slot,
     parent |-> <<pages[pg].selMaj, pages[pg].selMid>>]

\* No sibling of a depth is being processed.
NoSnap == [kind |-> "none"]

NoItem == [text |-> "", pg |-> 0, grid |-> 0, idx |-> 0, slot |-> 0,
           parent |-> <<0, 0>>]

Row(maj, mid, min, auto) == [maj |-> maj, mid |-> mid, min |-> min, auto |-> auto]

TextTriple(r) == <<r.maj.text, r.mid.text, r.min.text>>

(***************************************************************************)
(* hira_deep_classification_mapper.py                                      *)
(***************************************************************************)
ElementCap == 50

Min(a, b) == IF a <= b THEN a ELSE b

\* A use of DeepScan that keeps every row, whether its text was seen or not.
RECURSIVE DeepScanKeepingRepeats(_, _, _, _, _, _)
DeepScanKeepingRepeats(pg, layout, rows, i, seen, items) ==
    IF i >= Min(Len(rows), ElementCap) THEN items
    ELSE LET text == layout[rows[i + 1]]
         IN  IF text = "" \/ text = HeaderLabel
             THEN DeepScanKeepingRepeats(pg, layout, rows, i + 1, seen, items)
             ELSE DeepScanKeepingRepeats(pg, layout, rows, i + 1, seen,
                                         Append(items, Item(text, pg, 1, i, rows[i + 1])))

RECURSIVE DeepScan(_, _, _, _, _, _)
DeepScan(pg, layout, rows, i, seen, items) ==
    IF i >= Min(Len(rows), ElementCap) THEN items
    ELSE LET text == layout[rows[i + 1]]
         IN  IF text = "" \/ text = HeaderLabel \/ text \in seen
             THEN DeepScan(pg, layout, rows, i + 1, seen, items)
             ELSE DeepScan(pg, layout, rows, i + 1, seen \cup {text},
                           Append(items, Item(text, pg, 1, i, rows[i + 1])))

\* extract_current_level_items: the visible rows of grdIdxDiv1, whatever the
\* level asked for; blank rows, the header label and repeated texts skipped.
ExtractCurrentLevelItems(pg) ==
    LET layout == Grid(pages[pg], 1)
    IN  DeepScan(pg, layout, VisibleSlots(layout), 0, {}, <<>>)

\* get_input_field_code
GetInputFieldCode(pg) == IF pages[pg].open THEN pages[pg].field ELSE ""

\* The slot an element reference resolves to now (0 = no such element).
Resolve(el) ==
    IF el.pg = 0 \/ ~pages[el.pg].open THEN 0
    ELSE LET rows == VisibleSlots(Grid(pages[el.pg], el.grid))
         IN  IF el.idx + 1 \in DOMAIN rows THEN rows[el.idx + 1] ELSE 0

TierOutcomes == [1..3 -> BOOLEAN]

\* A use of ClickItemSafely that goes from the standard click straight to the
\* script click.
ClickItemSafelyWithoutForcedClick(el, tiers) ==
    IF Resolve(el) = 0 THEN [ok |-> FALSE, tried |-> 3]
    ELSE IF tiers[1] THEN [ok |-> TRUE, tried |-> 1]
    ELSE IF tiers[3] THEN [ok |-> TRUE, tried |-> 3]
    ELSE [ok |-> FALSE, tried |-> 3]

\* click_item_safely: standard click, then forced click, then script click.
ClickItemSafely(el, tiers) ==
    IF Resolve(el) = 0 THEN [ok |-> FALSE, tried |-> 3]
    ELSE IF tiers[1] THEN [ok |-> TRUE, tried |-> 1]
    ELSE IF tiers[2] THEN [ok |-> TRUE, tried |-> 2]
    ELSE IF tiers[3] THEN [ok |-> TRUE, tried |-> 3]
    ELSE [ok |-> FALSE, tried |-> 3]

\* The tier outcomes the portal may produce for the next click.
Allowed(tiers) == tiers[1] \/ anomalies < MaxAnomalies

Count(tiers) == IF tiers[1] THEN anomalies ELSE anomalies + 1

PagesAfterClick(el, res) ==
    IF res.ok THEN [pages EXCEPT ![el.pg] = Clicked(pages[el.pg], el.grid, Resolve(el))]
    ELSE pages

DeepSetupBrowser ==
    /\ pc = "start"
    /\ browser' = "open"
    /\ pc' = "setup_main"
    /\ UNCHANGED <<scanVars, fullVars, fileVars, tree, pages, mainPage, page, loopVars, data, saved, anomalies, lastClick>>
    /\ UNCHANGED <<ending, sessVars, codeVars>>

\* setup_main_page: the popup opened from the menu link, or None.
DeepSetupMainPage ==
    /\ pc = "setup_main"
    /\ \E outcome \in {"popup", "nomenu", "error"} :
        IF outcome = "popup"
        THEN /\ pages' = pages \o <<NewPage("main"), NewPage("popup")>>
             /\ mainPage' = Len(pages) + 1
             /\ page' = Len(pages) + 2
             /\ pc' = "open_modal"
        ELSE /\ pages' = Append(pages, NewPage("main"))
             /\ UNCHANGED <<mainPage, page>>
             /\ pc' = "finally"
    /\ UNCHANGED <<scanVars, fullVars, fileVars, tree, browser, loopVars, data, saved, anomalies, lastClick>>
    /\ UNCHANGED <<ending, sessVars, codeVars>>

DeepOpenClassificationModal ==
    /\ pc = "open_modal"
    /\ \E opened \in BOOLEAN :
        IF opened
        THEN /\ pages' = [pages EXCEPT ![page].modal = TRUE]
             /\ pc' = "major_extract"
        ELSE /\ UNCHANGED pages
             /\ pc' = "finally"
    /\ UNCHANGED <<scanVars, fullVars, fileVars, tree, browser, mainPage, page, loopVars, data, saved, anomalies, lastClick>>
    /\ UNCHANGED <<ending, sessVars, codeVars>>

DeepExtractMajor ==
    /\ pc = "major_extract"
    /\ LET items == ExtractCurrentLevelItems(page)
       IN  /\ majorItems' = items
           /\ iMaj' = 1
           /\ pc' = IF items = <<>> THEN "save" ELSE "major_click"
    /\ UNCHANGED <<scanVars, fullVars, fileVars, uiVars, page, middleItems, minorItems, iMid, iMin, data, saved,
                   anomalies, lastClick>>
    /\ UNCHANGED <<ending, sessVars, codeVars>>

\* A use of DeepClickMajor that ends the traversal at the first failed click.
DeepClickMajorGivingUp ==
    /\ pc = "major_click"
    /\ IF iMaj > Len(majorItems)
       THEN /\ pc' = "save"
            /\ UNCHANGED <<pages, iMaj, anomalies, lastClick>>
       ELSE \E tiers \in TierOutcomes :
            /\ Allowed(tiers)
            /\ LET el  == majorItems[iMaj]
                   res == ClickItemSafely(el, tiers)
               IN  /\ lastClick' = res
                   /\ anomalies' = Count(tiers)
                   /\ pages' = PagesAfterClick(el, res)
                   /\ iMaj' = IF res.ok THEN iMaj ELSE iMaj + 1
                   /\ pc' = IF res.ok THEN "middle_extract" ELSE "save"
    /\ UNCHANGED <<scanVars, fullVars, fileVars, tree, browser, mainPage, page, majorItems, middleItems, minorItems,
                   iMid, iMin, data, saved>>
    /\ UNCHANGED <<ending, sessVars, codeVars>>

DeepClickMajor ==
    /\ pc = "major_click"
    /\ IF iMaj > Len(majorItems)
       THEN /\ pc' = "save"
            /\ UNCHANGED <<pages, iMaj, anomalies, lastClick>>
       ELSE \E tiers \in TierOutcomes :
            /\ Allowed(tiers)
            /\ LET el  == majorItems[iMaj]
                   res == ClickItemSafely(el, tiers)
               IN  /\ lastClick' = res
                   /\ anomalies' = Count(tiers)
                   /\ pages' = PagesAfterClick(el, res)
                   /\ iMaj' = IF res.ok THEN iMaj ELSE iMaj + 1
                   /\ pc' = IF res.ok THEN "middle_extract" ELSE "major_click"
    /\ UNCHANGED <<scanVars, fullVars, fileVars, tree, browser, mainPage, page, majorItems, middleItems, minorItems,
                   iMid, iMin, data, saved>>
    /\ UNCHANGED <<ending, sessVars, codeVars>>

DeepExtractMiddle ==
    /\ pc = "middle_extract"
    /\ LET items == ExtractCurrentLevelItems(page)
       IN  /\ middleItems' = items
           /\ iMid' = 1
           /\ IF items = <<>>
              THEN /\ data' = Append(data, Row(majorItems[iMaj], NoItem, NoItem,
                                               GetInputFieldCode(page)))
                   /\ iMaj' = iMaj + 1
                   /\ pc' = "major_click"
              ELSE /\ UNCHANGED <<data, iMaj>>
                   /\ pc' = "middle_click"
    /\ UNCHANGED <<scanVars, fullVars, fileVars, uiVars, page, majorItems, minorItems, iMin, saved, anomalies, lastClick>>
    /\ UNCHANGED <<ending, sessVars, codeVars>>

DeepClickMiddle ==
    /\ pc = "middle_click"
    /\ IF iMid > Len(middleItems)
       THEN /\ pc' = "major_click"
            /\ iMaj' = iMaj + 1
            /\ UNCHANGED <<pages, iMid, anomalies, lastClick>>
       ELSE \E tiers \in TierOutcomes :
            /\ Allowed(tiers)
            /\ LET el  == middleItems[iMid]
                   res == ClickItemSafely(el, tiers)
               IN  /\ lastClick' = res
                   /\ anomalies' = Count(tiers)
                   /\ pages' = PagesAfterClick(el, res)
                   /\ iMid' = IF res.ok THEN iMid ELSE iMid + 1
                   /\ pc' = IF res.ok THEN "minor_extract" ELSE "middle_click"
                   /\ UNCHANGED iMaj
    /\ UNCHANGED <<scanVars, fullVars, fileVars, tree, browser, mainPage, page, majorItems, middleItems, minorItems,
                   iMin, data, saved>>
    /\ UNCHANGED <<ending, sessVars, codeVars>>

DeepExtractMinor ==
    /\ pc = "minor_extract"
    /\ LET items == ExtractCurrentLevelItems(page)
       IN  /\ minorItems' = items
           /\ iMin' = 1
           /\ IF items = <<>>
              THEN /\ data' = Append(data, Row(majorItems[iMaj], middleItems[iMid], NoItem,
                                               GetInputFieldCode(page)))
                   /\ iMid' = iMid + 1
                   /\ pc' = "middle_click"
              ELSE /\ UNCHANGED <<data, iMid>>
                   /\ pc' = "minor_click"
    /\ UNCHANGED <<scanVars, fullVars, fileVars, uiVars, page, majorItems, middleItems, iMaj, saved, anomalies, lastClick>>
    /\ UNCHANGED <<ending, sessVars, codeVars>>

DeepClickMinor ==
    /\ pc = "minor_click"
    /\ IF iMin > Len(minorItems)
       THEN /\ pc' = "middle_click"
            /\ iMid' = iMid + 1
            /\ UNCHANGED <<pages, iMin, anomalies, lastClick>>
       ELSE \E tiers \in TierOutcomes :
            /\ Allowed(tiers)
            /\ LET el  == minorItems[iMin]
                   res == ClickItemSafely(el, tiers)
               IN  /\ lastClick' = res
                   /\ anomalies' = Count(tiers)
                   /\ pages' = PagesAfterClick(el, res)
                   /\ iMin' = IF res.ok THEN iMin ELSE iMin + 1
                   /\ pc' = IF res.ok THEN "minor_record" ELSE "minor_click"
                   /\ UNCHANGED iMid
    /\ UNCHANGED <<scanVars, fullVars, fileVars, tree, browser, mainPage, page, majorItems, middleItems, minorItems,
                   iMaj, data, saved>>
    /\ UNCHANGED <<ending, sessVars, codeVars>>

\* The leaf row: the field is read and the row appended.
DeepRecordMinor ==
    /\ pc = "minor_record"
    /\ data' = Append(data, Row(majorItems[iMaj], middleItems[iMid], minorItems[iMin],
                                GetInputFieldCode(page)))
    /\ iMin' = iMin + 1
    /\ pc' = "minor_click"
    /\ UNCHANGED <<scanVars, fullVars, fileVars, uiVars, page, majorItems, middleItems, minorItems, iMaj, iMid, saved,
                   anomalies, lastClick>>
    /\ UNCHANGED <<ending, sessVars, codeVars>>

\* save_to_csv: nothing is written for an empty data list.
DeepSaveToCsv ==
    /\ pc = "save"
    /\ saved' = IF data = <<>> THEN saved ELSE data
    /\ pc' = "finally"
    /\ UNCHANGED <<scanVars, fullVars, fileVars, uiVars, page, loopVars, data, anomalies, lastClick>>
    /\ UNCHANGED <<ending, sessVars, codeVars>>

\* run's finally: the browser is closed.
DeepFinally ==
    /\ pc = "finally"
    /\ browser' = "closed"
    /\ pages' = [i \in DOMAIN pages |-> [pages[i] EXCEPT !.open = FALSE]]
    /\ pc' = "done"
    /\ UNCHANGED <<scanVars, fullVars, fileVars, tree, mainPage, page, loopVars, data, saved, anomalies, lastClick>>
    /\ ending' = "returned"
    /\ UNCHANGED <<sessVars, codeVars>>

InitState ==
    /\ scanIndex = 0
    /\ scanFailures = 0
    /\ pages = <<>>
    /\ browser = "none"
    /\ mainPage = 0
    /\ pc = "start"
    /\ page = 0
    /\ majorItems = <<>>
    /\ middleItems = <<>>
    /\ minorItems = <<>>
    /\ iMaj = 1
    /\ iMid = 1
    /\ iMin = 1
    /\ data = <<>>
    /\ saved = <<>>
    /\ anomalies = 0
    /\ lastClick = [ok |-> TRUE, tried |-> 0]
    /\ ending = ""
    /\ closes = 0
    /\ attempts = 0
    /\ failures = 0
    /\ held = 0
    /\ iCode = 1
    /\ collected = {}
    /\ path = <<>>
    /\ snap = <<NoSnap, NoSnap, NoSnap>>

\* No text has been parsed and no spreadsheet has been read.
NoParsed == [name |-> <<>>, code |-> <<>>, done |-> FALSE]

NoFile ==
    /\ rawText = <<>>
    /\ parsed = NoParsed
    /\ cells = <<>>
    /\ noDataShown = FALSE
    /\ downloads = {}
    /\ calls = <<>>
    /\ mapping = <<>>

InitCommon == tree \in Trees /\ InitState /\ NoFile

InitDeep == InitCommon /\ codes = <<>>

NextDeep ==
    \/ DeepSetupBrowser
    \/ DeepSetupMainPage
    \/ DeepOpenClassificationModal
    \/ DeepExtractMajor
    \/ DeepClickMajor
    \/ DeepExtractMiddle
    \/ DeepClickMiddle
    \/ DeepExtractMinor
    \/ DeepClickMinor
    \/ DeepRecordMinor
    \/ DeepSaveToCsv
    \/ DeepFinally

SpecDeep == InitDeep /\ [][NextDeep]_vars

(***************************************************************************)
(* hira_hierarchical_crawler.py                                            *)
(***************************************************************************)
MissLimit == 10
IndexCap  == 1000

\* The slot with element id <item_base><index> of a layout.
SlotAt(layout, index) ==
    IF index + 1 \in DOMAIN layout THEN layout[index + 1] ELSE MISSING

\* A use of LevelScan that counts all misses of a scan, consecutive or not.
RECURSIVE LevelScanCountingAllMisses(_, _, _, _, _, _)
LevelScanCountingAllMisses(pg, g, layout, index, misses, items) ==
    IF misses >= MissLimit THEN [items |-> items, next |-> index]
    ELSE LET slot == SlotAt(layout, index)
         IN  IF slot = MISSING \/ slot = HIDDEN
             THEN LevelScanCountingAllMisses(pg, g, layout, index + 1, misses + 1, items)
             ELSE LET items2 == IF slot # ""
                                THEN Append(items, Item(slot, pg, g, index, index + 1))
                                ELSE items
                  IN  IF index + 1 > IndexCap THEN [items |-> items2, next |-> index + 1]
                      ELSE LevelScanCountingAllMisses(pg, g, layout, index + 1, misses, items2)

\* The while loop of get_level_items: the items found and the index at which
\* the loop stopped (the indices below it were examined).
RECURSIVE LevelScan(_, _, _, _, _, _)
LevelScan(pg, g, layout, index, misses, items) ==
    IF misses >= MissLimit THEN [items |-> items, next |-> index]
    ELSE LET slot == SlotAt(layout, index)
         IN  IF slot = MISSING \/ slot = HIDDEN
             THEN LevelScan(pg, g, layout, index + 1, misses + 1, items)
             ELSE LET found  == slot # ""
                      items2 == IF found
                                THEN Append(items, Item(slot, pg, g, index, index + 1))
                                ELSE items
                      misses2 == IF found THEN 0 ELSE misses
                  IN  IF index + 1 > IndexCap THEN [items |-> items2, next |-> index + 1]
                      ELSE LevelScan(pg, g, layout, index + 1, misses2, items2)

\* A use of ScanIteration that never stops for the number of indices examined.
ScanIterationWithoutCap(pg, g, layout, index, misses, items) ==
    IF misses >= MissLimit
    THEN [items |-> items, index |-> index, misses |-> misses, done |-> TRUE]
    ELSE LET slot == SlotAt(layout, index)
         IN  IF slot = MISSING \/ slot = HIDDEN
             THEN [items |-> items, index |-> index + 1, misses |-> misses + 1, done |-> FALSE]
             ELSE [items |-> IF slot # "" THEN Append(items, Item(slot, pg, g, index, index + 1))
                             ELSE items,
                   index |-> index + 1,
                   misses |-> IF slot # "" THEN 0 ELSE misses,
                   done |-> FALSE]

\* One pass of the while loop of get_level_items, from its condition to the
\* end of its body: done tells that the loop was left.
ScanIteration(pg, g, layout, index, misses, items) ==
    IF misses >= MissLimit
    THEN [items |-> items, index |-> index, misses |-> misses, done |-> TRUE]
    ELSE LET slot == SlotAt(layout, index)
         IN  IF slot = MISSING \/ slot = HIDDEN
             THEN [items |-> items, index |-> index + 1, misses |-> misses + 1, done |-> FALSE]
             ELSE [items |-> IF slot # "" THEN Append(items, Item(slot, pg, g, index, index + 1))
                             ELSE items,
                   index |-> index + 1,
                   misses |-> IF slot # "" THEN 0 ELSE misses,
                   done |-> index + 1 > IndexCap]

\* get_level_items: the slots of the level's own grid, by element id.
GetLevelItems(pg, g) == LevelScan(pg, g, Grid(pages[pg], g), 0, 0, <<>>).items

\* The slot an element id resolves to now (0 = missing or not visible).
ResolveById(el) ==
    IF el.pg = 0 \/ ~pages[el.pg].open THEN 0
    ELSE IF SlotAt(Grid(pages[el.pg], el.grid), el.idx) \in {MISSING, HIDDEN} THEN 0
    ELSE el.idx + 1

\* click_item: one standard click on the element with the item's id.
ClickItem(el, clickOk) ==
    [ok |-> ResolveById(el) # 0 /\ clickOk, tried |-> 1]

PagesAfterClickItem(el, res) ==
    IF res.ok THEN [pages EXCEPT ![el.pg] = Clicked(pages[el.pg], el.grid, ResolveById(el))]
    ELSE pages

\* The rows crawl_hierarchy appends for one middle item: one per minor item.
HierRows(maj, mid, mins) == [k \in DOMAIN mins |-> Row(maj, mid, mins[k], "")]

\* setup_browser: launches the browser and opens the popup from the menu
\* link; raises when the main page fails to load or the link is missing.
\* run lets that exception through: its finally block is not yet entered.
HierSetupBrowser ==
    /\ pc = "start"
    /\ browser' = "open"
    /\ \E outcome \in {"popup", "nomenu", "error"} :
        IF outcome = "popup"
        THEN /\ pages' = pages \o <<NewPage("main"), NewPage("popup")>>
             /\ page' = Len(pages) + 2
             /\ pc' = "open_modal"
             /\ UNCHANGED ending
        ELSE /\ pages' = Append(pages, NewPage("main"))
             /\ UNCHANGED page
             /\ pc' = "done"
             /\ ending' = "raised"
    /\ UNCHANGED <<scanVars, fullVars, fileVars, tree, mainPage, loopVars, data, saved, anomalies, lastClick,
                   sessVars, codeVars>>

HierOpenClassificationModal ==
    /\ pc = "open_modal"
    /\ \E opened \in BOOLEAN :
        IF opened
        THEN /\ pages' = [pages EXCEPT ![page].modal = TRUE]
             /\ pc' = "major_extract"
        ELSE /\ UNCHANGED pages
             /\ pc' = "finally"
    /\ UNCHANGED <<scanVars, fullVars, fileVars, tree, browser, mainPage, page, loopVars, data, saved, anomalies,
                   lastClick, ending, sessVars, codeVars>>

HierGetMajor ==
    /\ pc = "major_extract"
    /\ LET items == GetLevelItems(page, 1)
       IN  /\ majorItems' = items
           /\ iMaj' = 1
           /\ pc' = IF items = <<>> THEN "close_modal" ELSE "major_click"
    /\ UNCHANGED <<scanVars, fullVars, fileVars, uiVars, page, middleItems, minorItems, iMid, iMin, data, saved,
                   anomalies, lastClick, ending, sessVars, codeVars>>

HierClickMajor ==
    /\ pc = "major_click"
    /\ IF iMaj > Len(majorItems)
       THEN /\ pc' = "close_modal"
            /\ UNCHANGED <<pages, iMaj, anomalies, lastClick>>
       ELSE \E clickOk \in BOOLEAN :
            /\ clickOk \/ anomalies < MaxAnomalies
            /\ LET el  == majorItems[iMaj]
                   res == ClickItem(el, clickOk)
               IN  /\ lastClick' = res
                   /\ anomalies' = IF clickOk THEN anomalies ELSE anomalies + 1
                   /\ pages' = PagesAfterClickItem(el, res)
                   /\ iMaj' = IF res.ok THEN iMaj ELSE iMaj + 1
                   /\ pc' = IF res.ok THEN "middle_extract" ELSE "major_click"
    /\ UNCHANGED <<scanVars, fullVars, fileVars, tree, browser, mainPage, page, majorItems, middleItems, minorItems,
                   iMid, iMin, data, saved, ending, sessVars, codeVars>>

\* No row is written for a major without middle items.
HierGetMiddle ==
    /\ pc = "middle_extract"
    /\ LET items == GetLevelItems(page, 2)
       IN  /\ middleItems' = items
           /\ iMid' = 1
           /\ iMaj' = IF items = <<>> THEN iMaj + 1 ELSE iMaj
           /\ pc' = IF items = <<>> THEN "major_click" ELSE "middle_click"
    /\ UNCHANGED <<scanVars, fullVars, fileVars, uiVars, page, majorItems, minorItems, iMin, data, saved,
                   anomalies, lastClick, ending, sessVars, codeVars>>

HierClickMiddle ==
    /\ pc = "middle_click"
    /\ IF iMid > Len(middleItems)
       THEN /\ pc' = "major_click"
            /\ iMaj' = iMaj + 1
            /\ UNCHANGED <<pages, iMid, anomalies, lastClick>>
       ELSE \E clickOk \in BOOLEAN :
            /\ clickOk \/ anomalies < MaxAnomalies
            /\ LET el  == middleItems[iMid]
                   res == ClickItem(el, clickOk)
               IN  /\ lastClick' = res
                   /\ anomalies' = IF clickOk THEN anomalies ELSE anomalies + 1
                   /\ pages' = PagesAfterClickItem(el, res)
                   /\ iMid' = IF res.ok THEN iMid ELSE iMid + 1
                   /\ pc' = IF res.ok THEN "minor_extract" ELSE "middle_click"
                   /\ UNCHANGED iMaj
    /\ UNCHANGED <<scanVars, fullVars, fileVars, tree, browser, mainPage, page, majorItems, middleItems, minorItems,
                   iMin, data, saved, ending, sessVars, codeVars>>

\* The minor items are not clicked: one row per minor item is appended, and
\* none for a middle without minor items.
HierGetMinor ==
    /\ pc = "minor_extract"
    /\ LET items == GetLevelItems(page, 3)
       IN  /\ minorItems' = items
           /\ data' = data \o HierRows(majorItems[iMaj], middleItems[iMid], items)
           /\ iMid' = iMid + 1
           /\ pc' = "middle_click"
    /\ UNCHANGED <<scanVars, fullVars, fileVars, uiVars, page, majorItems, middleItems, iMaj, iMin, saved,
                   anomalies, lastClick, ending, sessVars, codeVars>>

\* close_classification_modal: the modal closes when a close button is found.
HierCloseClassificationModal ==
    /\ pc = "close_modal"
    /\ \E found \in BOOLEAN :
        pages' = IF found THEN [pages EXCEPT ![page].modal = FALSE] ELSE pages
    /\ pc' = "save"
    /\ UNCHANGED <<scanVars, fullVars, fileVars, tree, browser, mainPage, page, loopVars, data, saved, anomalies,
                   lastClick, ending, sessVars, codeVars>>

\* save_results: nothing is written for an empty data list.
HierSaveResults ==
    /\ pc = "save"
    /\ saved' = IF data = <<>> THEN saved ELSE data
    /\ pc' = "finally"
    /\ UNCHANGED <<scanVars, fullVars, fileVars, uiVars, page, loopVars, data, anomalies, lastClick, ending,
                   sessVars, codeVars>>

\* A cancellation (CancelledError, KeyboardInterrupt) raised at an await of
\* the crawl passes every "except Exception" and reaches run's finally.
HierCancel ==
    /\ pc \in {"major_extract", "major_click", "middle_extract", "middle_click",
               "minor_extract", "close_modal"}
    /\ ending' = "cancelled"
    /\ pc' = "finally"
    /\ UNCHANGED <<scanVars, fullVars, fileVars, uiVars, page, loopVars, data, saved, anomalies, lastClick,
                   sessVars, codeVars>>

\* run's finally: context and browser are closed.
HierFinally ==
    /\ pc = "finally"
    /\ browser' = "closed"
    /\ pages' = [i \in DOMAIN pages |-> [pages[i] EXCEPT !.open = FALSE]]
    /\ ending' = IF ending = "" THEN "returned" ELSE ending
    /\ pc' = "done"
    /\ UNCHANGED <<scanVars, fullVars, fileVars, tree, mainPage, page, loopVars, data, saved, anomalies, lastClick,
                   sessVars, codeVars>>

InitHier == InitCommon /\ codes = <<>>

NextHier ==
    \/ HierSetupBrowser
    \/ HierOpenClassificationModal
    \/ HierGetMajor
    \/ HierClickMajor
    \/ HierGetMiddle
    \/ HierClickMiddle
    \/ HierGetMinor
    \/ HierCloseClassificationModal
    \/ HierSaveResults
    \/ HierCancel
    \/ HierFinally

SpecHier == InitHier /\ [][NextHier]_vars

\* The hierarchical crawler on a modal whose major grid has sparse slot ids:
\* the rows with ids in P exist, the other ids up to the largest do not; each
\* row has one middle row without minor rows.
SparseLayout(P) ==
    IF P = {} THEN <<>>
    ELSE LET last == CHOOSE i \in P : \A j \in P : j <= i
         IN  [k \in 1..(last + 1) |-> IF k - 1 \in P THEN "A" ELSE MISSING]

ExampleIndices == {0, 1, 2, 5, 9}

ScanIndexSets ==
    {P \in SUBSET (0..MaxScanIndex) : Cardinality(P) <= MaxPopulated} \cup {ExampleIndices}

ScanSlots == 1..(MaxScanIndex + 1)

\* Grids whose rows all exist but, except for the last one, render no text or
\* are not visible.
BlankLayouts ==
    {[k \in ScanSlots |-> IF k = MaxScanIndex + 1 THEN "A" ELSE filler] : filler \in {"", HIDDEN}}

ScanTrees ==
    {[maj |-> layout, mid |-> [s \in ScanSlots |-> <<"A">>],
      min |-> [s \in ScanSlots |-> [u \in ScanSlots |-> <<>>]]] :
        layout \in {SparseLayout(P) : P \in ScanIndexSets} \cup BlankLayouts
                       \cup {<<HeaderLabel, "A">>}}

InitScan == tree \in ScanTrees /\ InitState /\ NoFile /\ codes = <<>>

SpecScan == InitScan /\ [][NextHier]_vars

\* get_level_items for the major grid, one pass of its loop at a time.
HierScanSlot ==
    /\ pc = "major_extract"
    /\ LET r == ScanIteration(page, 1, Grid(pages[page], 1), scanIndex, scanFailures,
                              majorItems)
       IN  /\ majorItems' = r.items
           /\ scanIndex' = r.index
           /\ scanFailures' = r.misses
           /\ pc' = IF ~r.done THEN pc
                    ELSE IF r.items = <<>> THEN "close_modal" ELSE "major_click"
    /\ UNCHANGED <<fullVars, fileVars, uiVars, page, middleItems, minorItems, iMaj, iMid, iMin,
                   data, saved, anomalies, lastClick, ending, sessVars, codeVars>>

\* Major grids with slot ids up to the index cap and beyond it: the ids below
\* n hold rows, the next gap ids hold the filler (no element, a hidden element
\* or a row without text), and the ids behind them hold rows again.
MaxCapOffset == 1

LongLayout(n, gap, filler) ==
    [k \in 1..(IndexCap + 2 * MissLimit + MaxCapOffset) |->
        IF k <= n \/ k > n + gap THEN "A" ELSE filler]

LongLayouts ==
    {LongLayout(n, gap, filler) : n \in (IndexCap - MaxCapOffset)..(IndexCap + MaxCapOffset),
                                  gap \in {0, MissLimit - 1, MissLimit},
                                  filler \in {MISSING, HIDDEN, ""}}

InitCap ==
    /\ tree \in {[maj |-> layout, mid |-> <<>>, min |-> <<>>] : layout \in LongLayouts}
    /\ InitState
    /\ NoFile
    /\ codes = <<>>

NextCap ==
    \/ HierSetupBrowser
    \/ HierOpenClassificationModal
    \/ HierScanSlot

SpecCap == InitCap /\ [][NextCap]_vars

\* The scan under a scheduler that keeps running it: every await of the loop
\* returns or raises.
LiveCap == SpecCap /\ WF_vars(NextCap)

(***************************************************************************)
(* hira_classification_mapper.py                                           *)
(***************************************************************************)
MapperElementCap == 30

\* The popup form's own controls, which the backup selectors match.
Chrome(p) == IF p.open THEN <<[text |-> "ctl", grid |-> 0, slot |-> 1]>> ELSE <<>>

\* The visible rows of grid g of page record p, as matches of a locator.
GridMatches(p, g) ==
    LET layout == Grid(p, g)
        rows   == VisibleSlots(layout)
    IN  [i \in DOMAIN rows |-> [text |-> layout[rows[i]], grid |-> g, slot |-> rows[i]]]

ModalMatches(p) == GridMatches(p, 1) \o GridMatches(p, 2) \o GridMatches(p, 3)

\* What each entry of tree_selectors matches, in list order: grid-1 rows, the
\* rows of the whole modal, grid-1 rows, grid-1 cells, clickable cells, text
\* containers (two selectors), and the two backup selectors.
SelectorMatches(p) ==
    <<GridMatches(p, 1), ModalMatches(p), GridMatches(p, 1), GridMatches(p, 1),
      ModalMatches(p), ModalMatches(p), ModalMatches(p), Chrome(p), Chrome(p)>>

MapperItem(m, pg, sel, idx) ==
    [text |-> m.text, pg |-> pg, grid |-> m.grid, idx |-> idx, slot |-> m.slot,
     parent |-> <<pages[pg].selMaj, pages[pg].selMid>>, sel |-> sel]

\* The items one selector yields: visible elements with a text other than
\* "undefined" or "null", among the first MapperElementCap matches.
RECURSIVE SelectorItems(_, _, _, _, _)
SelectorItems(pg, sel, matches, i, items) ==
    IF i >= Min(Len(matches), MapperElementCap) THEN items
    ELSE LET m == matches[i + 1]
         IN  IF m.text \in {"", "undefined", "null"}
             THEN SelectorItems(pg, sel, matches, i + 1, items)
             ELSE SelectorItems(pg, sel, matches, i + 1,
                                Append(items, MapperItem(m, pg, sel, i)))

\* The selector loop: the first selector that yields items ends the search.
RECURSIVE Cascade(_, _, _)
Cascade(pg, all, sel) ==
    IF sel > Len(all) THEN <<>>
    ELSE LET items == SelectorItems(pg, sel, all[sel], 0, <<>>)
         IN  IF items # <<>> THEN items ELSE Cascade(pg, all, sel + 1)

\* Items with a text already seen are dropped, the first occurrence kept.
RECURSIVE UniqueByText(_, _, _)
UniqueByText(items, seen, out) ==
    IF items = <<>> THEN out
    ELSE IF Head(items).text \in seen THEN UniqueByText(Tail(items), seen, out)
    ELSE UniqueByText(Tail(items), seen \cup {Head(items).text}, Append(out, Head(items)))

\* extract_tree_items
ExtractTreeItems(pg) ==
    IF ~pages[pg].open THEN <<>>
    ELSE UniqueByText(Cascade(pg, SelectorMatches(pages[pg]), 1), {}, <<>>)

\* get_input_field_value
GetInputFieldValue(pg) == IF pages[pg].open THEN pages[pg].field ELSE ""

\* The match an item's locator resolves to now (grid -1 = no such element).
MapperResolve(el) ==
    IF el.pg = 0 \/ ~pages[el.pg].open THEN [text |-> "", grid |-> -1, slot |-> 0]
    ELSE LET matches == SelectorMatches(pages[el.pg])[el.sel]
         IN  IF el.idx + 1 \in DOMAIN matches THEN matches[el.idx + 1]
             ELSE [text |-> "", grid |-> -1, slot |-> 0]

\* The inline click of traverse_classification_tree: standard, forced, script;
\* the script click's exception reaches the loop's handler.
MapperClick(el, tiers) ==
    IF MapperResolve(el).grid = -1 THEN [ok |-> FALSE, tried |-> 3]
    ELSE IF tiers[1] THEN [ok |-> TRUE, tried |-> 1]
    ELSE IF tiers[2] THEN [ok |-> TRUE, tried |-> 2]
    ELSE IF tiers[3] THEN [ok |-> TRUE, tried |-> 3]
    ELSE [ok |-> FALSE, tried |-> 3]

MapperPagesAfterClick(el, res) ==
    LET m == MapperResolve(el)
    IN  IF res.ok /\ m.grid > 0
        THEN [pages EXCEPT ![el.pg] = Clicked(pages[el.pg], m.grid, m.slot)]
        ELSE pages

NeedMainPage == mainPage = 0 \/ ~pages[mainPage].open

\* open_main_page: a new main page unless self.main_page is open.
MapperOpenMainPageResult(loaded) ==
    IF NeedMainPage
    THEN [pages |-> Append(pages, NewPage("main")), mainPage |-> Len(pages) + 1,
          handle |-> 0, raised |-> ~loaded]
    ELSE [pages |-> pages, mainPage |-> mainPage, handle |-> 0, raised |-> FALSE]

\* open_popup_page: the popup opened from the menu or by its URL; it raises
\* when the main page or the popup URL fails to load.  The classification
\* modal of the new page is not opened.
MapperOpenPopupPage(outcome) ==
    LET main == MapperOpenMainPageResult(outcome # "mainfail")
    IN  IF main.raised THEN main
        ELSE IF outcome = "directfail"
        THEN [main EXCEPT !.pages = Append(main.pages, NewPage("blank")), !.raised = TRUE]
        ELSE [main EXCEPT !.pages = Append(main.pages, NewPage("popup")),
                          !.handle = Len(main.pages) + 1]

OpenOutcomes == {"opened", "mainfail", "directfail"}

\* ensure_popup_page
MapperEnsurePopupPage(handle, outcome) ==
    IF handle # 0 /\ pages[handle].open
    THEN [pages |-> pages, mainPage |-> mainPage, handle |-> handle, raised |-> FALSE]
    ELSE MapperOpenPopupPage(outcome)

Reopens(handle) == handle = 0 \/ ~pages[handle].open

MapperSetupBrowser ==
    /\ pc = "start"
    /\ browser' = "open"
    /\ pc' = "open_main"
    /\ UNCHANGED <<scanVars, fullVars, fileVars, tree, pages, mainPage, page, loopVars, data, saved, anomalies,
                   lastClick, ending, sessVars, codeVars>>

MapperOpenMainPage ==
    /\ pc = "open_main"
    /\ \E loaded \in BOOLEAN :
        LET r == MapperOpenMainPageResult(loaded)
        IN  /\ pages' = r.pages
            /\ mainPage' = r.mainPage
            /\ pc' = IF r.raised THEN "finally" ELSE "open_popup"
            /\ ending' = IF r.raised THEN "raised" ELSE ending
    /\ UNCHANGED <<scanVars, fullVars, fileVars, tree, browser, page, loopVars, data, saved, anomalies, lastClick,
                   sessVars, codeVars>>

MapperRunOpenPopupPage ==
    /\ pc = "open_popup"
    /\ \E outcome \in OpenOutcomes :
        LET r == MapperOpenPopupPage(outcome)
        IN  /\ pages' = r.pages
            /\ mainPage' = r.mainPage
            /\ page' = IF r.raised THEN page ELSE r.handle
            /\ held' = IF r.raised THEN held ELSE r.handle
            /\ pc' = IF r.raised THEN "finally" ELSE "open_modal"
            /\ ending' = IF r.raised THEN "raised" ELSE ending
    /\ UNCHANGED <<scanVars, fullVars, fileVars, tree, browser, loopVars, data, saved, anomalies, lastClick,
                   closes, attempts, failures, codeVars>>

MapperOpenClassificationModal ==
    /\ pc = "open_modal"
    /\ \E opened \in BOOLEAN :
        IF opened /\ pages[page].open
        THEN /\ pages' = [pages EXCEPT ![page].modal = TRUE]
             /\ pc' = "major_extract"
        ELSE /\ UNCHANGED pages
             /\ pc' = "finally"
    /\ UNCHANGED <<scanVars, fullVars, fileVars, tree, browser, mainPage, page, loopVars, data, saved, anomalies,
                   lastClick, ending, sessVars, codeVars>>

MapperExtractMajor ==
    /\ pc = "major_extract"
    /\ LET items == ExtractTreeItems(page)
       IN  /\ majorItems' = items
           /\ iMaj' = 1
           /\ pc' = IF items = <<>> THEN "close_modal" ELSE "major_ensure"
    /\ UNCHANGED <<scanVars, fullVars, fileVars, uiVars, page, middleItems, minorItems, iMid, iMin, data, saved,
                   anomalies, lastClick, ending, sessVars, codeVars>>

\* The ensure_popup_page call that opens an iteration of a loop: the handle
\* is kept or replaced; an exception of open_popup_page skips the item.
\* level: 1 major, 2 middle, 3 minor.
MapperEnsure(level, here, items, pos, back, click) ==
    /\ pc = here
    /\ IF pos > Len(items)
       THEN /\ pc' = back
            /\ iMaj' = IF level = 2 THEN iMaj + 1 ELSE iMaj
            /\ iMid' = IF level = 3 THEN iMid + 1 ELSE iMid
            /\ UNCHANGED <<pages, mainPage, page, iMin, attempts, failures>>
       ELSE \E outcome \in OpenOutcomes :
            LET r == MapperEnsurePopupPage(page, outcome)
            IN  /\ pages' = r.pages
                /\ mainPage' = r.mainPage
                /\ page' = IF r.raised THEN page ELSE r.handle
                /\ attempts' = IF Reopens(page) THEN attempts + 1 ELSE attempts
                /\ failures' = IF r.raised THEN failures + 1 ELSE failures
                /\ iMaj' = IF level = 1 /\ r.raised THEN iMaj + 1 ELSE iMaj
                /\ iMid' = IF level = 2 /\ r.raised THEN iMid + 1 ELSE iMid
                /\ iMin' = IF level = 3 /\ r.raised THEN iMin + 1 ELSE iMin
                /\ pc' = IF r.raised THEN here ELSE click
    /\ UNCHANGED <<scanVars, fullVars, fileVars, tree, browser, majorItems, middleItems, minorItems, data, saved,
                   anomalies, lastClick, ending, closes, held, codeVars>>

MapperEnsureMajor ==
    MapperEnsure(1, "major_ensure", majorItems, iMaj, "close_modal", "major_click")

MapperEnsureMiddle ==
    MapperEnsure(2, "middle_ensure", middleItems, iMid, "major_ensure", "middle_click")

MapperEnsureMinor ==
    MapperEnsure(3, "minor_ensure", minorItems, iMin, "middle_ensure", "minor_click")

\* The click of an item and the wait after it.
MapperClickStep(level, here, el, next) ==
    /\ pc = here
    /\ \E tiers \in TierOutcomes :
        /\ Allowed(tiers)
        /\ LET res == MapperClick(el, tiers)
           IN  /\ lastClick' = res
               /\ anomalies' = Count(tiers)
               /\ pages' = MapperPagesAfterClick(el, res)
               /\ iMaj' = IF level = 1 /\ ~res.ok THEN iMaj + 1 ELSE iMaj
               /\ iMid' = IF level = 2 /\ ~res.ok THEN iMid + 1 ELSE iMid
               /\ iMin' = IF level = 3 /\ ~res.ok THEN iMin + 1 ELSE iMin
               /\ pc' = IF res.ok THEN next
                        ELSE IF level = 1 THEN "major_ensure"
                        ELSE IF level = 2 THEN "middle_ensure" ELSE "minor_ensure"
    /\ UNCHANGED <<scanVars, fullVars, fileVars, tree, browser, mainPage, page, majorItems, middleItems, minorItems,
                   data, saved, ending, sessVars, codeVars>>

MapperClickMajor == MapperClickStep(1, "major_click", majorItems[iMaj], "middle_extract")

MapperClickMiddle == MapperClickStep(2, "middle_click", middleItems[iMid], "minor_extract")

MapperClickMinor == MapperClickStep(3, "minor_click", minorItems[iMin], "minor_record")

\* No row is written for a major without middle items.
MapperExtractMiddle ==
    /\ pc = "middle_extract"
    /\ LET items == ExtractTreeItems(page)
       IN  /\ middleItems' = items
           /\ iMid' = 1
           /\ iMaj' = IF items = <<>> THEN iMaj + 1 ELSE iMaj
           /\ pc' = IF items = <<>> THEN "major_ensure" ELSE "middle_ensure"
    /\ UNCHANGED <<scanVars, fullVars, fileVars, uiVars, page, majorItems, minorItems, iMin, data, saved,
                   anomalies, lastClick, ending, sessVars, codeVars>>

MapperExtractMinor ==
    /\ pc = "minor_extract"
    /\ LET items == ExtractTreeItems(page)
       IN  /\ minorItems' = items
           /\ iMin' = 1
           /\ iMid' = IF items = <<>> THEN iMid + 1 ELSE iMid
           /\ pc' = IF items = <<>> THEN "middle_ensure" ELSE "minor_ensure"
    /\ UNCHANGED <<scanVars, fullVars, fileVars, uiVars, page, majorItems, middleItems, iMaj, data, saved,
                   anomalies, lastClick, ending, sessVars, codeVars>>

MapperRecordMinor ==
    /\ pc = "minor_record"
    /\ data' = Append(data, Row(majorItems[iMaj], middleItems[iMid], minorItems[iMin],
                                GetInputFieldValue(page)))
    /\ iMin' = iMin + 1
    /\ pc' = "minor_ensure"
    /\ UNCHANGED <<scanVars, fullVars, fileVars, uiVars, page, majorItems, middleItems, minorItems, iMaj, iMid, saved,
                   anomalies, lastClick, ending, sessVars, codeVars>>

\* close_modal acts on the handle run holds, which traverse_classification_tree
\* does not update.
MapperCloseModal ==
    /\ pc = "close_modal"
    /\ \E found \in BOOLEAN :
        pages' = IF found /\ pages[held].open
                 THEN [pages EXCEPT ![held].modal = FALSE] ELSE pages
    /\ pc' = "save"
    /\ UNCHANGED <<scanVars, fullVars, fileVars, tree, browser, mainPage, page, loopVars, data, saved, anomalies,
                   lastClick, ending, sessVars, codeVars>>

MapperSaveToCsv ==
    /\ pc = "save"
    /\ saved' = IF data = <<>> THEN saved ELSE data
    /\ pc' = "finally"
    /\ UNCHANGED <<scanVars, fullVars, fileVars, uiVars, page, loopVars, data, anomalies, lastClick, ending,
                   sessVars, codeVars>>

MapperFinally ==
    /\ pc = "finally"
    /\ browser' = "closed"
    /\ pages' = [i \in DOMAIN pages |-> [pages[i] EXCEPT !.open = FALSE]]
    /\ ending' = IF ending = "" THEN "returned" ELSE ending
    /\ pc' = "done"
    /\ UNCHANGED <<scanVars, fullVars, fileVars, tree, mainPage, page, loopVars, data, saved, anomalies, lastClick,
                   sessVars, codeVars>>

\* The portal or the user closes the popup the traversal works on.
ClosePopup ==
    /\ pc \notin {"start", "finally", "done"}
    /\ closes < MaxCloses
    /\ page # 0
    /\ pages[page].open
    /\ pages' = [pages EXCEPT ![page].open = FALSE]
    /\ closes' = closes + 1
    /\ UNCHANGED <<scanVars, fullVars, fileVars, tree, browser, mainPage, pc, page, loopVars, data, saved, anomalies,
                   lastClick, ending, attempts, failures, held, codeVars>>

TreesMapper ==
    {t \in Trees : \A s, u \in Slots :
        t.mid[s] \in {<<>>, <<"m">>} /\ t.min[s][u] \in {<<>>, <<"x", "y">>}}

InitMapper == InitCommon /\ tree \in TreesMapper /\ codes = <<>>

NextMapper ==
    \/ MapperSetupBrowser
    \/ MapperOpenMainPage
    \/ MapperRunOpenPopupPage
    \/ MapperOpenClassificationModal
    \/ MapperExtractMajor
    \/ MapperEnsureMajor
    \/ MapperClickMajor
    \/ MapperExtractMiddle
    \/ MapperEnsureMiddle
    \/ MapperClickMiddle
    \/ MapperExtractMinor
    \/ MapperEnsureMinor
    \/ MapperClickMinor
    \/ MapperRecordMinor
    \/ MapperCloseModal
    \/ MapperSaveToCsv
    \/ MapperFinally
    \/ ClosePopup

SpecMapper == InitMapper /\ [][NextMapper]_vars

(***************************************************************************)
(* hira_crawler.py                                                         *)
(***************************************************************************)
CrawlerOpenOutcomes == {"menu", "rejected", "direct", "mainfail", "directfail"}

\* open_popup_page: the main page is created when missing or closed and
\* loaded again; the popup comes from a menu link ("menu"), or, when no link
\* gives a working popup, the main page is closed and the popup URL is loaded
\* in a new page ("direct"; "rejected": a popup opened from the menu showed no
\* search input and was closed first).  A failed load raises.
OpenPopupPage(outcome) ==
    LET p1 == IF NeedMainPage THEN Append(pages, NewPage("main")) ELSE pages
        m1 == IF NeedMainPage THEN Len(pages) + 1 ELSE mainPage
        p2 == IF outcome = "rejected"
              THEN Append(p1, [NewPage("popup") EXCEPT !.open = FALSE]) ELSE p1
        p3 == [p2 EXCEPT ![m1].open = FALSE]
    IN  CASE outcome = "mainfail" ->
               [pages |-> p1, mainPage |-> m1, handle |-> 0, raised |-> TRUE]
          [] outcome = "menu" ->
               [pages |-> Append(p1, NewPage("popup")), mainPage |-> m1,
                handle |-> Len(p1) + 1, raised |-> FALSE]
          [] outcome = "directfail" ->
               [pages |-> Append(p3, NewPage("blank")), mainPage |-> m1,
                handle |-> 0, raised |-> TRUE]
          [] OTHER ->
               [pages |-> Append(p3, NewPage("popup")), mainPage |-> m1,
                handle |-> Len(p3) + 1, raised |-> FALSE]

\* A use of EnsurePopupPage that opens a replacement whatever the handle is.
EnsurePopupPageAlwaysReopens(handle, outcome) == OpenPopupPage(outcome)

\* ensure_popup_page
EnsurePopupPage(handle, outcome) ==
    IF handle # 0 /\ pages[handle].open
    THEN [pages |-> pages, mainPage |-> mainPage, handle |-> handle, raised |-> FALSE]
    ELSE OpenPopupPage(outcome)

\* A use of Result that files every outcome under one code.
ResultUnderOneCode(code, success, error) ==
    [code |-> "a", success |-> success, error |-> error, filename |-> <<>>]

\* The result dictionary of search_and_download with success and error set;
\* error "" stands for None, filename <<>> for None.
Result(code, success, error) ==
    [code |-> code, success |-> success, error |-> error, filename |-> <<>>]

\* The name the export block saves a download under.
FileName(code) == <<code, "timestamp", "suggested_filename">>

\* run: read_excel_codes; without codes run returns before a browser exists.
CrawlerReadCodes ==
    /\ pc = "start"
    /\ IF codes = <<>>
       THEN pc' = "done" /\ ending' = "returned"
       ELSE pc' = "setup" /\ UNCHANGED ending
    /\ UNCHANGED <<scanVars, fullVars, fileVars, uiVars, page, loopVars, data, saved, anomalies, lastClick,
                   sessVars, codeVars>>

CrawlerSetupBrowser ==
    /\ pc = "setup"
    /\ browser' = "open"
    /\ pc' = "open_popup"
    /\ UNCHANGED <<scanVars, fullVars, fileVars, tree, pages, mainPage, page, loopVars, data, saved, anomalies,
                   lastClick, ending, sessVars, codeVars>>

\* run: page = await self.open_popup_page(context)
CrawlerRunOpenPopupPage ==
    /\ pc = "open_popup"
    /\ \E outcome \in CrawlerOpenOutcomes :
        LET r == OpenPopupPage(outcome)
        IN  /\ pages' = r.pages
            /\ mainPage' = r.mainPage
            /\ held' = IF r.raised THEN held ELSE r.handle
            /\ pc' = IF r.raised THEN "finally" ELSE "loop"
            /\ ending' = IF r.raised THEN "raised" ELSE ending
    /\ UNCHANGED <<scanVars, fullVars, fileVars, tree, browser, page, loopVars, data, saved, anomalies, lastClick,
                   closes, attempts, failures, codeVars>>

\* run: the head of the loop over the codes.
CrawlerNextCode ==
    /\ pc = "loop"
    /\ pc' = IF iCode > Len(codes) THEN "save" ELSE "sd_ensure"
    /\ UNCHANGED <<scanVars, fullVars, fileVars, uiVars, page, loopVars, data, saved, anomalies, lastClick, ending,
                   sessVars, codeVars>>

\* search_and_download: page = await self.ensure_popup_page(context, page),
\* on the handle run passed; the result goes to the parameter, not to run.
CrawlerEnsure ==
    /\ pc = "sd_ensure"
    /\ \E outcome \in CrawlerOpenOutcomes :
        LET r == EnsurePopupPage(held, outcome)
        IN  /\ pages' = r.pages
            /\ mainPage' = r.mainPage
            /\ page' = r.handle
            /\ attempts' = IF Len(r.pages) > Len(pages) \/ r.raised
                           THEN attempts + 1 ELSE attempts
            /\ failures' = IF r.raised THEN failures + 1 ELSE failures
            /\ data' = IF r.raised
                       THEN Append(data, Result(codes[iCode], FALSE, "popup_access_failed"))
                       ELSE data
            /\ iCode' = IF r.raised THEN iCode + 1 ELSE iCode
            /\ pc' = IF r.raised THEN "loop" ELSE "sd_search"
    /\ UNCHANGED <<scanVars, fullVars, fileVars, tree, browser, loopVars, saved, anomalies, lastClick, ending,
                   closes, held, codes>>

\* How far the gating of a control gets: the wait for 'visible' times out,
\* the wait for 'enabled' times out, or both return.
Gates == {"not_visible", "not_enabled", "ready"}

\* A use of GatedClick that clicks whatever the waits did.
GatedClickRegardless(control, gate) ==
    IF gate = "not_visible" THEN <<<<control, "visible">>, <<control, "click">>>>
    ELSE <<<<control, "visible">>, <<control, "enabled">>, <<control, "click">>>>

\* The calls on a control: wait_for(state='visible'), wait_for(state=
\* 'enabled'), click(); a wait that times out raises, the click that returns
\* closes the sequence.
GatedClick(control, gate) ==
    IF gate = "not_visible" THEN <<>>
    ELSE IF gate = "not_enabled" THEN <<<<control, "visible">>>>
    ELSE <<<<control, "visible">>, <<control, "enabled">>, <<control, "click">>>>

\* search_and_download: the code typed into the search input and the query
\* button clicked; a control that does not appear, or a closed page, raises.
\* After the query the portal shows rows or its no-data message.
CrawlerSearch ==
    /\ pc = "sd_search"
    /\ \E gate \in Gates, shown \in BOOLEAN :
        /\ pages[page].open \/ gate = "not_visible"
        /\ calls' = GatedClick("query", gate)
        /\ IF gate = "ready"
           THEN /\ pc' = "sd_download"
                /\ noDataShown' = shown
                /\ UNCHANGED <<data, iCode>>
           ELSE /\ data' = Append(data, Result(codes[iCode], FALSE, "error"))
                /\ iCode' = iCode + 1
                /\ pc' = "loop"
                /\ UNCHANGED noDataShown
    /\ UNCHANGED <<scanVars, fullVars, mapping, rawText, parsed, cells, downloads, uiVars, page, loopVars, saved,
                   anomalies, lastClick, ending, sessVars, codes>>

\* A use of DownloadResult that never looks for the no-data message.
DownloadResultWithoutSentinel(code, exported, sentinel) ==
    IF exported THEN [Result(code, TRUE, "") EXCEPT !.filename = FileName(code)]
    ELSE Result(code, FALSE, "download_unavailable")

\* A use of DownloadResult that marks the success and leaves the name out.
DownloadResultWithoutFilename(code, exported, sentinel) ==
    IF exported THEN Result(code, TRUE, "")
    ELSE IF sentinel THEN Result(code, FALSE, "no_data")
    ELSE Result(code, FALSE, "download_unavailable")

\* The result of the export block: exported = the download was saved;
\* sentinel = is_visible() of the no-data message returned True.
DownloadResult(code, exported, sentinel) ==
    IF exported THEN [Result(code, TRUE, "") EXCEPT !.filename = FileName(code)]
    ELSE IF sentinel THEN Result(code, FALSE, "no_data")
    ELSE Result(code, FALSE, "download_unavailable")

\* A file of the download directory: the code searched for, the download
\* event it came from (the fetch that emitted it) and who saved it.
File(code, event, by) == [code |-> code, event |-> event, by |-> by]

\* search_and_download: the export button and the download; the download is
\* saved only when the export click was issued.
CrawlerDownload ==
    /\ pc = "sd_download"
    /\ \E gate \in Gates, exported \in BOOLEAN :
        /\ pages[page].open \/ gate = "not_visible"
        /\ exported => gate = "ready"
        /\ calls' = calls \o GatedClick("export", gate)
        /\ data' = Append(data, DownloadResult(codes[iCode], exported,
                                               pages[page].open /\ noDataShown))
        /\ downloads' = IF exported
                        THEN downloads \cup {File(codes[iCode], iCode, "flow")}
                        ELSE downloads
    /\ iCode' = iCode + 1
    /\ pc' = "loop"
    /\ UNCHANGED <<scanVars, fullVars, mapping, rawText, parsed, cells, noDataShown, uiVars, page, loopVars, saved,
                   anomalies, lastClick, ending, sessVars, codes>>

\* _handle_download, registered on the popup page by open_popup_page: the
\* callback of a download event saves the download under a name of its own.
\* It runs as a task of its own once the event was emitted, while the
\* browser is open.
CrawlerHandleDownload ==
    /\ browser = "open"
    /\ \E f \in downloads :
        /\ f.by = "flow"
        /\ File(f.code, f.event, "handler") \notin downloads
        /\ downloads' = downloads \cup {File(f.code, f.event, "handler")}
    /\ UNCHANGED <<scanVars, fullVars, mapping, rawText, parsed, cells, noDataShown, calls, uiVars, pc, page,
                   loopVars, data, saved, anomalies, lastClick, ending, sessVars, codeVars>>

\* run: the results file, written after the loop.
CrawlerSaveResults ==
    /\ pc = "save"
    /\ saved' = data
    /\ pc' = "finally"
    /\ UNCHANGED <<scanVars, fullVars, fileVars, uiVars, page, loopVars, data, anomalies, lastClick, ending,
                   sessVars, codeVars>>

\* run is cancelled or interrupted inside the inner try.
CrawlerCancel ==
    /\ pc \in {"loop", "sd_ensure", "sd_search", "sd_download"}
    /\ ending' = "cancelled"
    /\ pc' = "finally"
    /\ UNCHANGED <<scanVars, fullVars, fileVars, uiVars, page, loopVars, data, saved, anomalies, lastClick,
                   sessVars, codeVars>>

CrawlerFinally ==
    /\ pc = "finally"
    /\ browser' = "closed"
    /\ pages' = [i \in DOMAIN pages |-> [pages[i] EXCEPT !.open = FALSE]]
    /\ ending' = IF ending = "" THEN "returned" ELSE ending
    /\ pc' = "done"
    /\ UNCHANGED <<scanVars, fullVars, fileVars, tree, mainPage, page, loopVars, data, saved, anomalies, lastClick,
                   sessVars, codeVars>>

\* The portal or the user closes a popup page of the session.
CrawlerClosePopup ==
    /\ pc \in {"loop", "sd_ensure", "sd_search", "sd_download"}
    /\ closes < MaxCloses
    /\ \E p \in DOMAIN pages :
        /\ pages[p].kind = "popup"
        /\ pages[p].open
        /\ pages' = [pages EXCEPT ![p].open = FALSE]
    /\ closes' = closes + 1
    /\ UNCHANGED <<scanVars, fullVars, fileVars, tree, browser, mainPage, pc, page, loopVars, data, saved, anomalies,
                   lastClick, ending, attempts, failures, held, codeVars>>

RECURSIVE SeqsUpTo(_, _)
SeqsUpTo(S, n) ==
    IF n = 0 THEN {<<>>}
    ELSE LET shorter == SeqsUpTo(S, n - 1)
         IN  shorter \cup {Append(q, c) : q \in shorter, c \in S}

InitCrawler ==
    /\ InitCommon
    /\ tree = [maj |-> <<>>, mid |-> [s \in Slots |-> <<>>],
               min |-> [s \in Slots |-> [u \in Slots |-> <<>>]]]
    /\ codes \in SeqsUpTo({"a", "b"}, MaxCodes)

NextCrawler ==
    \/ CrawlerReadCodes
    \/ CrawlerSetupBrowser
    \/ CrawlerRunOpenPopupPage
    \/ CrawlerNextCode
    \/ CrawlerEnsure
    \/ CrawlerSearch
    \/ CrawlerDownload
    \/ CrawlerSaveResults
    \/ CrawlerCancel
    \/ CrawlerFinally
    \/ CrawlerClosePopup

\* The run of the crawler apart from the download callbacks, which change
\* nothing but the download directory.
SpecCrawler == InitCrawler /\ [][NextCrawler]_vars

\* The run of the crawler with the download callbacks.
NextDownload ==
    \/ NextCrawler
    \/ CrawlerHandleDownload

SpecDownload == InitCrawler /\ [][NextDownload]_vars

(***************************************************************************)
(* hira_full_tree_crawler.py                                               *)
(***************************************************************************)
\* get_tree_elements: the selectors of tree_selectors are tried in list order
\* and every visible element with text is appended to one list, which is
\* returned as soon as it is non-empty after a selector; the level asked for
\* is not used.  The selectors name no grid: each matches the rows of the
\* whole modal.
TreeSelectors == 1..8

TreeSelectorMatches(p) == [sel \in TreeSelectors |-> ModalMatches(p)]

TreeElement(pg, sel, idx) == [pg |-> pg, sel |-> sel, idx |-> idx]

\* The call that raises during get_tree_elements: is_visible or text_content
\* of element `at` of selector `sel`; sel = 0 when no call raises.
MaxFailAt == 1

NoFailure == [sel |-> 0, at |-> 0]

Failures == {NoFailure} \cup [sel : {1, 2}, at : 0..MaxFailAt]

\* The element loop of one selector, appending to the list shared by all
\* selectors; raised tells that the loop was left by an exception.
RECURSIVE TreeScan(_, _, _, _, _, _)
TreeScan(pg, sel, matches, i, elements, fail) ==
    IF i >= Len(matches) THEN [elements |-> elements, raised |-> FALSE]
    ELSE IF fail.sel = sel /\ fail.at = i THEN [elements |-> elements, raised |-> TRUE]
    ELSE IF matches[i + 1].text = ""
         THEN TreeScan(pg, sel, matches, i + 1, elements, fail)
         ELSE TreeScan(pg, sel, matches, i + 1,
                       Append(elements, TreeElement(pg, sel, i)), fail)

\* The selector loop: an exception goes on to the next selector with the list
\* as it is; otherwise a non-empty list ends the loop.
RECURSIVE TreeCascade(_, _, _, _, _)
TreeCascade(pg, all, sel, elements, fail) ==
    IF sel > Len(all) THEN elements
    ELSE LET r == TreeScan(pg, sel, all[sel], 0, elements, fail)
         IN  IF ~r.raised /\ r.elements # <<>> THEN r.elements
             ELSE TreeCascade(pg, all, sel + 1, r.elements, fail)

GetTreeElements(pg, fail) ==
    IF ~pages[pg].open THEN <<>>
    ELSE TreeCascade(pg, TreeSelectorMatches(pages[pg]), 1, <<>>, fail)

\* What a locator of get_tree_elements resolves to now (grid -1: nothing).
TreeResolve(el) ==
    IF ~pages[el.pg].open THEN [text |-> "", grid |-> -1, slot |-> 0]
    ELSE LET matches == TreeSelectorMatches(pages[el.pg])[el.sel]
         IN  IF el.idx + 1 \in DOMAIN matches THEN matches[el.idx + 1]
             ELSE [text |-> "", grid |-> -1, slot |-> 0]

FullResult(p, success, error) == [path |-> p, success |-> success, error |-> error]

\* Where explore_classification_tree goes on when the call for depth d
\* returns: the caller's backtracking step, or run.
AfterReturn(d) == IF d = 0 THEN "save" ELSE IF d = 1 THEN "reset_0" ELSE "reset_1"

Items(d) == IF d = 0 THEN majorItems ELSE IF d = 1 THEN middleItems ELSE minorItems

Pos(d) == IF d = 0 THEN iMaj ELSE IF d = 1 THEN iMid ELSE iMin

\* A use of SetPos that leaves every loop where it stands.
SetPosStaying(d, next) ==
    /\ iMaj' = iMaj
    /\ iMid' = iMid
    /\ iMin' = iMin

\* The loop position of depth d moves to next; the others stay.
SetPos(d, next) ==
    /\ iMaj' = IF d = 0 THEN next ELSE iMaj
    /\ iMid' = IF d = 1 THEN next ELSE iMid
    /\ iMin' = IF d = 2 THEN next ELSE iMin

FullSetupBrowser ==
    /\ pc = "start"
    /\ browser' = "open"
    /\ pages' = Append(pages, NewPage("blank"))
    /\ page' = Len(pages) + 1
    /\ pc' = "goto"
    /\ UNCHANGED <<scanVars, fullVars, fileVars, tree, mainPage, loopVars, data, saved, anomalies, lastClick,
                   ending, sessVars, codeVars>>

\* run: page.goto(self.popup_url)
FullGoto ==
    /\ pc = "goto"
    /\ \E loaded \in BOOLEAN :
        IF loaded
        THEN /\ pages' = [pages EXCEPT ![page].kind = "popup"]
             /\ pc' = "open_modal"
             /\ UNCHANGED ending
        ELSE /\ pc' = "finally"
             /\ ending' = "raised"
             /\ UNCHANGED pages
    /\ UNCHANGED <<scanVars, fullVars, fileVars, tree, browser, mainPage, page, loopVars, data, saved,
                   anomalies, lastClick, sessVars, codeVars>>

\* open_classification_modal: True after a click on the first usable button
\* selector (the modal opens, or the click landed elsewhere), else False.
FullOpenModalOutcomes == {"opened", "other", "failed"}

FullOpenClassificationModal ==
    /\ pc = "open_modal"
    /\ \E outcome \in FullOpenModalOutcomes :
        /\ pages' = IF outcome = "opened"
                    THEN [pages EXCEPT ![page].modal = TRUE] ELSE pages
        /\ pc' = IF outcome = "failed" THEN "finally" ELSE "get_0"
    /\ UNCHANGED <<scanVars, fullVars, fileVars, tree, browser, mainPage, page, loopVars, data, saved,
                   anomalies, lastClick, ending, sessVars, codeVars>>

\* explore_classification_tree below depth 3: the elements of the level.
\* No call of the scan raises here; SpecCascade explores the raising calls.
FullGetTreeElements(d) ==
    /\ pc = IF d = 0 THEN "get_0" ELSE IF d = 1 THEN "get_1" ELSE "get_2"
    /\ LET elements == GetTreeElements(page, NoFailure)
       IN  /\ majorItems' = IF d = 0 THEN elements ELSE majorItems
           /\ middleItems' = IF d = 1 THEN elements ELSE middleItems
           /\ minorItems' = IF d = 2 THEN elements ELSE minorItems
           /\ SetPos(d, 1)
           /\ snap' = [snap EXCEPT ![d + 1] = NoSnap]
           /\ pc' = IF elements = <<>> THEN AfterReturn(d)
                    ELSE IF d = 0 THEN "click_0" ELSE IF d = 1 THEN "click_1" ELSE "click_2"
    /\ UNCHANGED <<collected, path, fileVars, scanVars, uiVars, page, data, saved, anomalies, lastClick,
                   ending, sessVars, codeVars>>

\* One iteration of the element loop up to the recursive call: the element's
\* text is read, the element is clicked; an exception skips the element.
FullClickElement(d) ==
    /\ pc = IF d = 0 THEN "click_0" ELSE IF d = 1 THEN "click_1" ELSE "click_2"
    /\ IF Pos(d) > Len(Items(d))
       THEN /\ pc' = AfterReturn(d)
            /\ UNCHANGED <<pages, path, snap, iMaj, iMid, iMin, anomalies, lastClick>>
       ELSE LET el == Items(d)[Pos(d)]
                m  == TreeResolve(el)
            IN  \E clickOk \in BOOLEAN :
                /\ clickOk \/ anomalies < MaxAnomalies
                /\ anomalies' = IF clickOk THEN anomalies ELSE anomalies + 1
                /\ IF m.grid = -1 \/ m.text = "" \/ ~clickOk
                   THEN /\ SetPos(d, Pos(d) + 1)
                        /\ lastClick' = [ok |-> FALSE, tried |-> 1]
                        /\ snap' = [snap EXCEPT ![d + 1] = NoSnap]
                        \* text_content raising in the first iteration leaves
                        \* element_text unbound for the handler's message: the
                        \* handler raises and the outer handler ends the call.
                        /\ pc' = IF m.grid = -1 /\ Pos(d) = 1 THEN AfterReturn(d) ELSE pc
                        /\ UNCHANGED <<pages, path>>
                   ELSE /\ pages' = [pages EXCEPT ![page] = Clicked(pages[page], m.grid, m.slot)]
                        /\ path' = Append(SubSeq(path, 1, d), m.text)
                        /\ snap' = [snap EXCEPT ![d + 1] = pages[page]]
                        /\ lastClick' = [ok |-> TRUE, tried |-> 1]
                        /\ pc' = IF d = 0 THEN "get_1" ELSE IF d = 1 THEN "get_2" ELSE "leaf"
                        /\ UNCHANGED <<iMaj, iMid, iMin>>
    /\ UNCHANGED <<collected, fileVars, scanVars, tree, browser, mainPage, page, majorItems, middleItems,
                   minorItems, data, saved, ending, sessVars, codeVars>>

FullClickMajor == FullClickElement(0)

FullClickMiddle == FullClickElement(1)

FullClickMinor == FullClickElement(2)

FullGetMajor == FullGetTreeElements(0)

FullGetMiddle == FullGetTreeElements(1)

FullGetMinor == FullGetTreeElements(2)

\* explore_classification_tree at depth 3: a path not collected before is
\* collected and processed; the call returns to the loop of depth 2, which
\* does not backtrack.
FullCollectPath ==
    /\ pc = "leaf"
    /\ IF path \in collected
       THEN /\ iMin' = iMin + 1
            /\ pc' = "click_2"
            /\ UNCHANGED collected
       ELSE /\ collected' = collected \cup {path}
            /\ pc' = "process"
            /\ UNCHANGED iMin
    /\ UNCHANGED <<path, snap, fileVars, scanVars, uiVars, page, majorItems, middleItems, minorItems, iMaj,
                   iMid, data, saved, anomalies, lastClick, ending, sessVars, codeVars>>

FetchOutcomes == {"saved", "unavailable", "no_data", "error"}

\* The result of process_final_classification for a non-empty search field.
ProcessResult(p, outcome) ==
    CASE outcome = "saved"   -> FullResult(p, TRUE, "")
      [] outcome = "no_data" -> FullResult(p, FALSE, "no_data")
      [] outcome = "error"   -> FullResult(p, FALSE, "error")
      [] OTHER               -> FullResult(p, FALSE, "download_unavailable")

\* process_final_classification: the modal is closed, the search field read;
\* with an empty field the function returns its result without appending it.
FullProcessFinalClassification ==
    /\ pc = "process"
    /\ \E found \in BOOLEAN, outcome \in FetchOutcomes :
        /\ pages' = IF found THEN [pages EXCEPT ![page].modal = FALSE] ELSE pages
        /\ data' = IF pages[page].field = "" THEN data
                   ELSE Append(data, ProcessResult(path, outcome))
    /\ iMin' = iMin + 1
    /\ pc' = "click_2"
    /\ UNCHANGED <<scanVars, fullVars, fileVars, tree, browser, mainPage, page, majorItems, middleItems,
                   minorItems, iMaj, iMid, saved, anomalies, lastClick, ending,
                   sessVars, codeVars>>

\* The page after the classification button was clicked on it: the modal is
\* open; the portal shows it with the earlier selection or with none.
Reopened(p, keeps) ==
    IF p.modal \/ keeps THEN [p EXCEPT !.modal = TRUE]
    ELSE [p EXCEPT !.modal = TRUE, !.selMaj = 0, !.selMid = 0, !.selMin = 0]

\* reset_classification_state, called after the recursive call for an element
\* of depth 0 or 1 returned: close the modal, open it again.
FullResetClassificationState(d) ==
    /\ pc = IF d = 0 THEN "reset_0" ELSE "reset_1"
    /\ \E found \in BOOLEAN, outcome \in FullOpenModalOutcomes, keeps \in BOOLEAN :
        LET closed == IF found THEN [pages[page] EXCEPT !.modal = FALSE] ELSE pages[page]
        IN  pages' = [pages EXCEPT ![page] =
                         IF outcome = "opened" THEN Reopened(closed, keeps) ELSE closed]
    /\ SetPos(d, Pos(d) + 1)
    /\ pc' = IF d = 0 THEN "click_0" ELSE "click_1"
    /\ UNCHANGED <<scanVars, fullVars, fileVars, tree, browser, mainPage, page, majorItems, middleItems,
                   minorItems, data, saved, anomalies, lastClick, ending, sessVars,
                   codeVars>>

FullResetAfterMajor == FullResetClassificationState(0)

FullResetAfterMiddle == FullResetClassificationState(1)

\* run: the results file, written when there are results.
FullSaveResults ==
    /\ pc = "save"
    /\ saved' = data
    /\ pc' = "finally"
    /\ UNCHANGED <<scanVars, fullVars, fileVars, uiVars, page, loopVars, data, anomalies, lastClick, ending,
                   sessVars, codeVars>>

FullFinally ==
    /\ pc = "finally"
    /\ browser' = "closed"
    /\ pages' = [i \in DOMAIN pages |-> [pages[i] EXCEPT !.open = FALSE]]
    /\ ending' = IF ending = "" THEN "returned" ELSE ending
    /\ pc' = "done"
    /\ UNCHANGED <<scanVars, fullVars, fileVars, tree, mainPage, page, loopVars, data, saved, anomalies,
                   lastClick, sessVars, codeVars>>

TreesFull == {t \in TreesMapper : t.maj \in {<<>>, <<"A">>, <<"A", "A">>}}

InitFull == InitCommon /\ tree \in TreesFull /\ codes = <<>>

NextFull ==
    \/ FullSetupBrowser
    \/ FullGoto
    \/ FullOpenClassificationModal
    \/ FullGetMajor
    \/ FullClickMajor
    \/ FullGetMiddle
    \/ FullClickMiddle
    \/ FullGetMinor
    \/ FullClickMinor
    \/ FullCollectPath
    \/ FullProcessFinalClassification
    \/ FullResetAfterMajor
    \/ FullResetAfterMiddle
    \/ FullSaveResults
    \/ FullFinally

SpecFull == InitFull /\ [][NextFull]_vars

\* The full-tree crawler under a scheduler that keeps running it: every await
\* of run returns or raises.
LiveFull == SpecFull /\ WF_vars(NextFull)

\* One call of get_tree_elements on the freshly opened modal, in which one
\* call on an element may raise.
GetTreeElementsCall ==
    /\ pc = "get_0"
    /\ \E fail \in Failures :
        majorItems' = GetTreeElements(page, fail)
    /\ pc' = "scanned"
    /\ UNCHANGED <<scanVars, fullVars, fileVars, uiVars, page, middleItems, minorItems, iMaj, iMid, iMin,
                   data, saved, anomalies, lastClick, ending, sessVars, codeVars>>

InitCascade == InitCommon /\ codes = <<>>

NextCascade ==
    \/ FullSetupBrowser
    \/ FullGoto
    \/ FullOpenClassificationModal
    \/ GetTreeElementsCall

SpecCascade == InitCascade /\ [][NextCascade]_vars

(***************************************************************************)
(* hira_classification_crawler.py                                          *)
(*                                                                         *)
(* The crawler looks every seed code up in the mapping file, opens the     *)
(* classification modal, clicks the mapped major, middle and minor node    *)
(* and then queries and exports as hira_crawler.py does.                   *)
(***************************************************************************)
SeedCodes == {"a", "b"}

\* The code is not a key of code_classification_map.
NoEntry == [major |-> "-", middle |-> "-", minor |-> "-"]

\* read_classification_mapping: a missing cell becomes ''.
Entries == [major : {"", "A"}, middle : {"", "m"}, minor : {"", "x"}]

Mappings == [SeedCodes -> Entries \cup {NoEntry}]

\* A use of MappingCheck that looks for the key only.
MappingCheckKeyOnly(entry) ==
    IF entry = NoEntry THEN "no_mapping" ELSE ""

\* search_and_download_by_classification, step 1: the error the mapping of
\* the code is turned down with ("" when it is complete).
MappingCheck(entry) ==
    IF entry = NoEntry THEN "no_mapping"
    ELSE IF entry.major = "" \/ entry.middle = "" \/ entry.minor = "" THEN "incomplete_mapping"
    ELSE ""

\* The selectors of one level of navigate_classification_tree.
NavSelectors == 5

\* How many selectors of a level fail with an exception (in is_visible or
\* in click) before one does not.
Raised == {0, 1, NavSelectors}

\* The element a selector for `name` finds first: the selectors name a text,
\* not a grid.
NavMatches(p, name) ==
    SelectSeq(ModalMatches(p), LAMBDA m : m.text = name)

\* A use of NavigateLevel that goes through all selectors, clicking with
\* every one that does not raise.
NavigateLevelWithoutBreak(p, level, name, raised) ==
    LET matches == NavMatches(p, name)
    IN  IF matches = <<>> \/ raised >= NavSelectors
        THEN [clicked |-> FALSE, page |-> p,
              calls |-> [i \in 1..Min(raised, NavSelectors) |-> <<level, "raised">>]]
        ELSE [clicked |-> TRUE,
              page |-> Clicked(p, matches[1].grid, matches[1].slot),
              calls |-> [i \in 1..NavSelectors |->
                            IF i <= raised THEN <<level, "raised">> ELSE <<level, "click">>]]

\* The selector loop of one level: each selector looks the element up and
\* clicks it when it is visible; an exception goes on to the next selector,
\* a click that returns ends the loop.  clicked = <level>_clicked.
NavigateLevel(p, level, name, raised) ==
    LET matches == NavMatches(p, name)
    IN  IF matches = <<>>
        THEN [clicked |-> FALSE, page |-> p, calls |-> <<>>]
        ELSE IF raised >= NavSelectors
        THEN [clicked |-> FALSE, page |-> p,
              calls |-> [i \in 1..NavSelectors |-> <<level, "raised">>]]
        ELSE [clicked |-> TRUE,
              page |-> Clicked(p, matches[1].grid, matches[1].slot),
              calls |-> Append([i \in 1..raised |-> <<level, "raised">>], <<level, "click">>)]

\* run: the codes and the mapping are read; without either run returns
\* before a browser exists.
ClsReadInputs ==
    /\ pc = "start"
    /\ IF codes = <<>> \/ \A c \in SeedCodes : mapping[c] = NoEntry
       THEN pc' = "done" /\ ending' = "returned"
       ELSE pc' = "setup" /\ UNCHANGED ending
    /\ UNCHANGED <<scanVars, fullVars, fileVars, uiVars, page, loopVars, data, saved, anomalies, lastClick,
                   sessVars, codeVars>>

\* setup_browser: one page, with the download callback registered.
ClsSetupBrowser ==
    /\ pc = "setup"
    /\ browser' = "open"
    /\ pages' = Append(pages, NewPage("blank"))
    /\ page' = Len(pages) + 1
    /\ pc' = "goto"
    /\ UNCHANGED <<scanVars, fullVars, fileVars, tree, mainPage, loopVars, data, saved, anomalies, lastClick,
                   ending, sessVars, codeVars>>

\* run: page.goto(self.popup_url)
ClsGoto ==
    /\ pc = "goto"
    /\ \E loaded \in BOOLEAN :
        IF loaded
        THEN /\ pages' = [pages EXCEPT ![page].kind = "popup"]
             /\ pc' = "loop"
             /\ UNCHANGED ending
        ELSE /\ pc' = "finally"
             /\ ending' = "raised"
             /\ UNCHANGED pages
    /\ UNCHANGED <<scanVars, fullVars, fileVars, tree, browser, mainPage, page, loopVars, data, saved,
                   anomalies, lastClick, sessVars, codeVars>>

\* run: the head of the loop over the codes.
ClsNextCode ==
    /\ pc = "loop"
    /\ pc' = IF iCode > Len(codes) THEN "save" ELSE "sdc_check"
    /\ UNCHANGED <<scanVars, fullVars, fileVars, uiVars, page, loopVars, data, saved, anomalies, lastClick,
                   ending, sessVars, codeVars>>

\* search_and_download_by_classification, step 1: a code without a complete
\* mapping gets its failure result at once.
ClsCheckMapping ==
    /\ pc = "sdc_check"
    /\ LET error == MappingCheck(mapping[codes[iCode]])
       IN  IF error # ""
           THEN /\ data' = Append(data, Result(codes[iCode], FALSE, error))
                /\ iCode' = iCode + 1
                /\ pc' = "loop"
           ELSE /\ pc' = "sdc_open"
                /\ UNCHANGED <<data, iCode>>
    /\ calls' = <<>>
    /\ UNCHANGED <<scanVars, fullVars, mapping, rawText, parsed, cells, noDataShown, downloads, uiVars,
                   page, loopVars, saved, anomalies, lastClick, ending, sessVars, codes>>

\* open_classification_modal: True after the click on the button (the modal
\* opens, or the click landed elsewhere); False when no selector shows the
\* button or a call raises.
ClsOpenClassificationModal ==
    /\ pc = "sdc_open"
    /\ \E outcome \in FullOpenModalOutcomes, keeps \in BOOLEAN :
        IF outcome = "failed"
        THEN /\ data' = Append(data, Result(codes[iCode], FALSE, "modal_open_failed"))
             /\ iCode' = iCode + 1
             /\ pc' = "loop"
             /\ UNCHANGED <<pages, calls>>
        ELSE /\ pages' = IF outcome = "opened"
                         THEN [pages EXCEPT ![page] = Reopened(pages[page], keeps)]
                         ELSE pages
             /\ calls' = Append(calls, <<"classification", "click">>)
             /\ pc' = "nav_major"
             /\ UNCHANGED <<data, iCode>>
    /\ UNCHANGED <<scanVars, fullVars, mapping, rawText, parsed, cells, noDataShown, downloads, tree,
                   browser, mainPage, page, loopVars, saved, anomalies, lastClick, ending,
                   sessVars, codes>>

NavLevels == <<"major", "middle", "minor">>

NavPc(d) == IF d = 1 THEN "nav_major" ELSE IF d = 2 THEN "nav_middle" ELSE "nav_minor"

\* navigate_classification_tree, level d: the selector loop; a level that was
\* not clicked returns False, and the caller closes the modal and returns
\* its failure result.  After the third level the function returns True.
ClsNavigate(d) ==
    /\ pc = NavPc(d)
    /\ \E raised \in Raised, found \in BOOLEAN :
        LET entry == mapping[codes[iCode]]
            name  == IF d = 1 THEN entry.major ELSE IF d = 2 THEN entry.middle ELSE entry.minor
            r     == NavigateLevel(pages[page], NavLevels[d], name, raised)
        IN  /\ calls' = calls \o r.calls
            /\ IF r.clicked
               THEN /\ pages' = [pages EXCEPT ![page] = r.page]
                    /\ pc' = IF d = 3 THEN "sdc_query" ELSE NavPc(d + 1)
                    /\ UNCHANGED <<data, iCode>>
               ELSE /\ pages' = IF found THEN [pages EXCEPT ![page].modal = FALSE] ELSE pages
                    /\ data' = Append(data, Result(codes[iCode], FALSE, "navigation_failed"))
                    /\ iCode' = iCode + 1
                    /\ pc' = "loop"
    /\ UNCHANGED <<scanVars, fullVars, mapping, rawText, parsed, cells, noDataShown, downloads, tree,
                   browser, mainPage, page, loopVars, saved, anomalies, lastClick, ending,
                   sessVars, codes>>

ClsNavigateMajor == ClsNavigate(1)

ClsNavigateMiddle == ClsNavigate(2)

ClsNavigateMinor == ClsNavigate(3)

\* search_and_download_by_classification, steps 4 to 7: the modal is closed,
\* the search input read and the query button clicked; a button that does
\* not appear raises.  The export block that follows is CrawlerDownload.
ClsQuery ==
    /\ pc = "sdc_query"
    /\ \E found \in BOOLEAN, gate \in Gates, shown \in BOOLEAN :
        /\ pages' = IF found THEN [pages EXCEPT ![page].modal = FALSE] ELSE pages
        /\ calls' = calls \o GatedClick("query", gate)
        /\ IF gate = "ready"
           THEN /\ pc' = "sd_download"
                /\ noDataShown' = shown
                /\ UNCHANGED <<data, iCode>>
           ELSE /\ data' = Append(data, Result(codes[iCode], FALSE, "error"))
                /\ iCode' = iCode + 1
                /\ pc' = "loop"
                /\ UNCHANGED noDataShown
    /\ UNCHANGED <<scanVars, fullVars, mapping, rawText, parsed, cells, downloads, tree, browser,
                   mainPage, page, loopVars, saved, anomalies, lastClick, ending, sessVars,
                   codes>>

TreesClassification == {t \in TreesFull : t.maj = <<"A">>}

InitClassification ==
    /\ tree \in TreesClassification
    /\ InitState
    /\ rawText = <<>>
    /\ parsed = NoParsed
    /\ cells = <<>>
    /\ noDataShown = FALSE
    /\ downloads = {}
    /\ calls = <<>>
    /\ codes \in SeqsUpTo(SeedCodes, MaxCodes)
    /\ mapping \in Mappings

NextClassification ==
    \/ ClsReadInputs
    \/ ClsSetupBrowser
    \/ ClsGoto
    \/ ClsNextCode
    \/ ClsCheckMapping
    \/ ClsOpenClassificationModal
    \/ ClsNavigateMajor
    \/ ClsNavigateMiddle
    \/ ClsNavigateMinor
    \/ ClsQuery
    \/ CrawlerDownload
    \/ CrawlerSaveResults
    \/ CrawlerFinally

SpecClassification == InitClassification /\ [][NextClassification]_vars

(***************************************************************************)
(* hira_hierarchical_crawler.py: parse_korean_text                         *)
(*                                                                         *)
(* A text is a sequence of characters; "K" stands for a Hangul syllable,   *)
(* "A" for an upper-case Latin letter and "0" for a digit.                 *)
(***************************************************************************)
Upper  == {"A"}
Digit  == {"0"}
Chars  == {"K", "A", "0", " ", "(", ")"}

\* The three texts of the docstring and of the specification's examples.
ExampleTexts ==
    {<<"K", "K", "(", "0", "0", ")">>, <<"0", "0", " ", "K", "K">>, <<"K", "K">>}

Texts == UNION {[1..n -> Chars] : n \in 0..MaxTextLen} \cup ExampleTexts

\* str.strip()
Strip(t) ==
    LET inked == {i \in DOMAIN t : t[i] # " "}
    IN  IF inked = {} THEN <<>>
        ELSE SubSeq(t, CHOOSE a \in inked : \A i \in inked : a <= i,
                       CHOOSE b \in inked : \A i \in inked : i <= b)

\* The longest run of characters of S that starts at position from of t ends
\* at this position (from - 1 when there is none).
RunEnd(t, from, S) ==
    CHOOSE e \in (from - 1)..Len(t) :
        /\ \A i \in from..e : t[i] \in S
        /\ e < Len(t) => t[e + 1] \notin S

NoMatch == [ok |-> FALSE, g1 |-> <<>>, g2 |-> <<>>]

\* re.match(r'^(.+?)\s*\(([^)]+)\)\s*$', text) for a stripped text: the
\* shortest first group, hence the leftmost opening parenthesis from which no
\* closing one occurs before the last character.
Match1(t) ==
    LET n    == Len(t)
        open == {p \in 2..(n - 2) : t[p] = "(" /\ \A i \in (p + 1)..(n - 1) : t[i] # ")"}
    IN  IF n = 0 \/ t[n] # ")" \/ open = {} THEN NoMatch
        ELSE LET p == CHOOSE x \in open : \A y \in open : x <= y
                 q == CHOOSE x \in 1..(p - 1) :
                          /\ \A i \in (x + 1)..(p - 1) : t[i] = " "
                          /\ x > 1 => t[x] # " "
             IN  [ok |-> TRUE, g1 |-> SubSeq(t, 1, q), g2 |-> SubSeq(t, p + 1, n - 1)]

\* The tail of '<head>\s+(.+)$' once <head> has matched up to position k.
Remainder(t, k) ==
    LET n == Len(t)
        s == RunEnd(t, k + 1, {" "})
    IN  IF s = k THEN <<>>
        ELSE IF s < n THEN SubSeq(t, s + 1, n)
        ELSE IF s - k >= 2 THEN SubSeq(t, s, n)
        ELSE <<>>

\* re.match(r'^([A-Z0-9]+)\s+(.+)$', text)
Match2(t) ==
    LET k == RunEnd(t, 1, Upper \cup Digit)
    IN  IF k = 0 \/ Remainder(t, k) = <<>> THEN NoMatch
        ELSE [ok |-> TRUE, g1 |-> SubSeq(t, 1, k), g2 |-> Remainder(t, k)]

\* re.match(r'^(\d+[A-Z]*)\s+(.+)$', text)
Match3(t) ==
    LET d == RunEnd(t, 1, Digit)
        k == RunEnd(t, d + 1, Upper)
    IN  IF d = 0 \/ Remainder(t, k) = <<>> THEN NoMatch
        ELSE [ok |-> TRUE, g1 |-> SubSeq(t, 1, k), g2 |-> Remainder(t, k)]

\* parse_korean_text
ParseKoreanText(raw) ==
    LET t == Strip(raw)
    IN  IF Match1(t).ok
        THEN [name |-> Strip(Match1(t).g1), code |-> Strip(Match1(t).g2), done |-> TRUE]
        ELSE IF Match2(t).ok
        THEN [name |-> Strip(Match2(t).g2), code |-> Strip(Match2(t).g1), done |-> TRUE]
        ELSE IF Match3(t).ok
        THEN [name |-> Strip(Match3(t).g2), code |-> Strip(Match3(t).g1), done |-> TRUE]
        ELSE [name |-> t, code |-> <<>>, done |-> TRUE]

\* A call of parse_korean_text.
ParseKoreanTextCall ==
    /\ pc = "start"
    /\ parsed' = ParseKoreanText(rawText)
    /\ pc' = "parsed"
    /\ UNCHANGED <<scanVars, fullVars, mapping, rawText, cells, noDataShown, downloads, calls, uiVars, page, loopVars,
                   data, saved, anomalies, lastClick, ending, sessVars, codeVars>>

NoPortal == [maj |-> <<>>, mid |-> <<>>, min |-> <<>>]

InitParse ==
    /\ tree = NoPortal
    /\ InitState
    /\ rawText \in Texts
    /\ parsed = NoParsed
    /\ cells = <<>>
    /\ noDataShown = FALSE
    /\ downloads = {}
    /\ calls = <<>>
    /\ mapping = <<>>
    /\ codes = <<>>

SpecParse == InitParse /\ [][ParseKoreanTextCall]_vars

(***************************************************************************)
(* hira_crawler.py, hira_classification_crawler.py: read_excel_codes       *)
(*                                                                         *)
(* cells holds the first column of the sheet below its header row, as      *)
(* pandas.read_excel delivers it: a text, or NaN for a blank cell.         *)
(***************************************************************************)
NaN == <<"<NaN>">>

CellValues == {NaN, <<" ">>, <<"A">>, <<" ", "0", " ">>}

Columns == UNION {[1..n -> CellValues] : n \in 0..MaxRows}

\* Series.astype(str) on one cell.  pandas up to 2.x turns NaN into the text
\* 'nan'; pandas 3 keeps it missing.
AsTypeStr(cell, keepsMissing) ==
    IF cell = NaN /\ ~keepsMissing THEN <<"n", "a", "n">> ELSE cell

\* The list comprehension of read_excel_codes over the converted cells.
RECURSIVE StrippedCodes(_)
StrippedCodes(column) ==
    IF column = <<>> THEN <<>>
    ELSE LET code == Head(column)
             rest == StrippedCodes(Tail(column))
         IN  IF code # NaN /\ Strip(code) # <<>> THEN <<Strip(code)>> \o rest ELSE rest

\* read_excel_codes
ReadExcelCodes(column, keepsMissing) ==
    StrippedCodes([i \in DOMAIN column |-> AsTypeStr(column[i], keepsMissing)])

\* A call of read_excel_codes under either pandas.
ReadExcelCodesCall ==
    /\ pc = "start"
    /\ \E keepsMissing \in BOOLEAN : codes' = ReadExcelCodes(cells, keepsMissing)
    /\ pc' = "read"
    /\ UNCHANGED <<scanVars, fullVars, mapping, rawText, parsed, cells, noDataShown, downloads, calls, uiVars, page,
                   loopVars, data, saved, anomalies, lastClick, ending, sessVars, iCode>>

InitExcel ==
    /\ tree = NoPortal
    /\ InitState
    /\ rawText = <<>>
    /\ parsed = NoParsed
    /\ cells \in Columns
    /\ noDataShown = FALSE
    /\ downloads = {}
    /\ calls = <<>>
    /\ mapping = <<>>
    /\ codes = <<>>

SpecExcel == InitExcel /\ [][ReadExcelCodesCall]_vars

(***************************************************************************)
(* Properties                                                              *)
(***************************************************************************)
Triples(rows) == [i \in DOMAIN rows |-> TextTriple(rows[i])]

RECURSIVE Concat(_)
Concat(seqs) == IF seqs = <<>> THEN <<>> ELSE Head(seqs) \o Concat(Tail(seqs))

\* The rows of the subtree of middle row u of major row s, in rendering order.
RowsOfMiddle(t, s, u) ==
    IF t.min[s][u] = <<>> THEN << <<t.maj[s], t.mid[s][u], "">> >>
    ELSE [k \in DOMAIN t.min[s][u] |-> <<t.maj[s], t.mid[s][u], t.min[s][u][k]>>]

RowsOfMajor(t, s) ==
    IF t.mid[s] = <<>> THEN << <<t.maj[s], "", "">> >>
    ELSE Concat([u \in DOMAIN t.mid[s] |-> RowsOfMiddle(t, s, u)])

\* The depth-first, rendering-order enumeration of a tree.
DepthFirst(t) == Concat([s \in DOMAIN t.maj |-> RowsOfMajor(t, s)])

NoRepeats(t) ==
    /\ \A a, b \in DOMAIN t.maj : a # b => t.maj[a] # t.maj[b]
    /\ \A s \in Slots :
        /\ \A a, b \in DOMAIN t.mid[s] : a # b => t.mid[s][a] # t.mid[s][b]
        /\ \A u \in Slots : \A a, b \in DOMAIN t.min[s][u] :
               a # b => t.min[s][u][a] # t.min[s][u][b]

\* 2 majors, 1 middle each, {2, 0} minors.
ExampleTree ==
    [maj |-> <<"A", "B">>,
     mid |-> [s \in Slots |-> <<"m">>],
     min |-> [s \in Slots |-> [u \in Slots |->
                 IF s = 1 /\ u = 1 THEN <<"x", "y">> ELSE <<>>]]]

ExampleOutput == << <<"A", "m", "x">>, <<"A", "m", "y">>, <<"B", "m", "">> >>

\* C1: the accumulated rows never hold two rows with the same
\* (major text, middle text, minor text) triple.
C1_NoDuplicateRows ==
    \A i, j \in DOMAIN data : i # j => TextTriple(data[i]) # TextTriple(data[j])

\* C2: when the middle-level extraction after a major click comes back empty,
\* that step appends exactly one partial row for the major (middle and minor
\* empty); when the minor-level extraction after a middle click comes back
\* empty, it appends exactly one partial row with the minor empty.
C2_ChildlessNodeRecorded ==
    [][/\ (pc = "middle_extract" /\ GetLevelItems(page, 2) = <<>>) =>
              /\ Len(data') = Len(data) + 1
              /\ SubSeq(data', 1, Len(data)) = data
              /\ data'[Len(data')].maj = majorItems[iMaj]
              /\ data'[Len(data')].mid = NoItem
              /\ data'[Len(data')].min = NoItem
       /\ (pc = "minor_extract" /\ GetLevelItems(page, 3) = <<>>) =>
              /\ Len(data') = Len(data) + 1
              /\ SubSeq(data', 1, Len(data)) = data
              /\ data'[Len(data')].maj = majorItems[iMaj]
              /\ data'[Len(data')].mid = middleItems[iMid]
              /\ data'[Len(data')].min = NoItem]_vars

\* C3: when every click succeeded, the rows of a finished traversal are the
\* depth-first, rendering-order enumeration of the tree; for the example tree
\* they are exactly the three rows of ExampleOutput, in that order.
C3_DepthFirstOrder ==
    (pc = "done" /\ majorItems # <<>> /\ anomalies = 0 /\ NoRepeats(tree)) =>
        /\ Triples(data) = DepthFirst(tree)
        /\ tree = ExampleTree => Triples(data) = ExampleOutput

\* A full row is consistent with the rendering: its middle item was read from
\* the middle grid while its major row was selected, and its minor item from
\* the minor grid while its major and middle rows were selected.
RenderedUnder(r) ==
    /\ r.mid.grid = 2
    /\ r.mid.parent[1] = r.maj.slot
    /\ tree.mid[r.maj.slot][r.mid.slot] = r.mid.text
    /\ r.min.grid = 3
    /\ r.min.parent = <<r.maj.slot, r.mid.slot>>
    /\ tree.min[r.maj.slot][r.mid.slot][r.min.slot] = r.min.text

\* C4: every full row pairs each node with the parent under which the portal
\* rendered it when it was read.
C4_ConsistentWithRendering ==
    \A i \in DOMAIN data : data[i].min # NoItem => RenderedUnder(data[i])

LivePopups == {p \in DOMAIN pages : pages[p].kind = "popup" /\ pages[p].open}

\* C5: when the popup is closed and every attempt to recreate it fails, the
\* traversal is aborted with an error after exactly 3 attempts and no further
\* attempt is made.
C5_AbortAfterThreeFailures ==
    (failures = attempts /\ failures >= 3)
        => /\ failures = 3
           /\ pc \in {"finally", "done"}
           /\ ending = "raised"

\* C6: after the popup was recreated, the classification modal of the page
\* the traversal works on is open again before the next node is clicked or
\* its children are read.
C6_ModalReopenedAfterRecovery ==
    (/\ pc \in {"major_click", "middle_click", "minor_click",
                "middle_extract", "minor_extract"}
     /\ attempts > failures
     /\ pages[page].open)
        => pages[page].modal

\* C7: at most one working popup is open at any time: a replacement is opened
\* only when the popup in use is gone.
C7_SingleLivePopup == Cardinality(LivePopups) <= 1

\* C8: ensure_popup_page given a handle to an open page returns that handle
\* and opens nothing; only a missing or closed handle makes it open a
\* replacement.
C8_EnsureKeepsLiveHandle ==
    [][(pc = "sd_ensure" /\ pc' \in {"sd_search", "loop"}) =>
          /\ (held # 0 /\ pages[held].open)
                => /\ page' = held
                   /\ pc' = "sd_search"
                   /\ UNCHANGED <<pages, mainPage, browser, held, data, saved,
                                  iCode, attempts, failures>>
          /\ Len(pages') > Len(pages) => (held = 0 \/ ~pages[held].open)]_vars

\* A fetch that went on with the handle run holds, the popup still open.
C8_Witness ==
    /\ pc = "sd_search"
    /\ page = held
    /\ pages[held].open
    /\ iCode = 2
    /\ attempts = 0

\* C11: every path added to collected_paths has exactly one entry in the
\* results, whatever the outcome of its processing: once a path has been
\* processed there are as many results as collected paths.
C11_OneResultPerCollectedPath ==
    pc # "process" => Len(data) = Cardinality(collected)

\* The element the deep traversal is about to click (NoItem: none).
DeepCurrentElement ==
    IF pc = "major_click" /\ iMaj <= Len(majorItems) THEN majorItems[iMaj]
    ELSE IF pc = "middle_click" /\ iMid <= Len(middleItems) THEN middleItems[iMid]
    ELSE IF pc = "minor_click" /\ iMin <= Len(minorItems) THEN minorItems[iMin]
    ELSE NoItem

\* C12: whatever each of the three clicks would do on the element about to be
\* clicked, click_item_safely stops at the first click that works, having
\* tried exactly the earlier ones, and returns False exactly when none works.
C12_ClickTiersInOrder ==
    \A tiers \in TierOutcomes :
        DeepCurrentElement # NoItem =>
            LET el == DeepCurrentElement
                r  == ClickItemSafely(el, tiers)
                Works(i) == Resolve(el) # 0 /\ tiers[i]
            IN  /\ r.ok <=> \E i \in 1..3 : Works(i)
                /\ r.ok => (Works(r.tried) /\ \A j \in 1..(r.tried - 1) : ~Works(j))
                /\ ~r.ok => r.tried = 3

\* A major was clicked by the script click after the two clicks before it
\* had failed.
C12_Witness ==
    /\ pc = "middle_extract"
    /\ lastClick = [ok |-> TRUE, tried |-> 3]

\* C13: a failed click of a node adds no record and leaves the traversal at
\* the same loop with the next sibling, and a record is only ever written for
\* the nodes the loops stand on, which move back only when a list is read anew.
C13_FailedClickSkipsSibling ==
    [][/\ (DeepCurrentElement # NoItem /\ ~lastClick'.ok)
            => /\ data' = data
               /\ pc' = pc
               /\ <<majorItems', middleItems', minorItems'>> = <<majorItems, middleItems, minorItems>>
               /\ iMaj' = IF pc = "major_click" THEN iMaj + 1 ELSE iMaj
               /\ iMid' = IF pc = "middle_click" THEN iMid + 1 ELSE iMid
               /\ iMin' = IF pc = "minor_click" THEN iMin + 1 ELSE iMin
       /\ data' # data
            => /\ Len(data') = Len(data) + 1
               /\ data'[Len(data')].maj = majorItems[iMaj]
               /\ data'[Len(data')].mid \in {NoItem, middleItems[iMid]}
               /\ data'[Len(data')].min \in {NoItem, minorItems[iMin]}
               /\ lastClick.ok
       /\ iMaj' >= iMaj
       /\ iMid' >= iMid \/ pc = "middle_extract"
       /\ iMin' >= iMin \/ pc = "minor_extract"]_vars

\* A finished run whose first major could not be clicked and whose rows all
\* belong to the second major.
C13_Witness ==
    /\ pc = "done"
    /\ Len(majorItems) = 2
    /\ anomalies = 1
    /\ data # <<>>
    /\ \A i \in DOMAIN data : data[i].maj = majorItems[2]

\* The slot ids of a layout that hold a row.
Populated(layout) == {i \in 0..(Len(layout) - 1) : layout[i + 1] \notin {MISSING, HIDDEN, ""}}

\* Every run of missing ids between two rows is shorter than the miss limit.
GapsBelowLimit(P) ==
    \A a, b \in P : (a < b /\ ~\E c \in P : a < c /\ c < b) => b - a - 1 < MissLimit

\* get_level_items returned exactly the rows with ids in P, in id order, and
\* stopped after the MissLimit-th miss behind the last of them.
ScanExact(P, items, next) ==
    /\ {items[i].idx : i \in DOMAIN items} = P
    /\ Len(items) = Cardinality(P)
    /\ \A i, j \in DOMAIN items : i < j => items[i].idx < items[j].idx
    /\ \E i \in P : (\A j \in P : j <= i) /\ next - 1 = i + MissLimit
    /\ (P = ExampleIndices => (Len(items) = 5 /\ next - 1 <= 19))

\* A step of get_level_items for the major grid.
MajorScanStep == pc = "major_extract" /\ pc' \in {"close_modal", "major_click"}

C15_ClickUsesFreshReference ==
    DeepCurrentElement # NoItem =>
        /\ DeepCurrentElement.pg = page
        /\ DeepCurrentElement.parent = <<pages[page].selMaj, pages[page].selMid>>

\* A token of identifier shape: letters and digits only, at least one.
IsIdentifier(tok) == tok # <<>> /\ \A i \in DOMAIN tok : tok[i] \in Upper \cup Digit

\* The three rules as the claim states them, on the stripped text t.
ClaimedParse(t) ==
    LET n      == Len(t)
        opens  == {p \in 1..(n - 2) : t[p] = "(" /\ t[n] = ")" /\ IsIdentifier(SubSeq(t, p + 1, n - 1))}
        k      == RunEnd(t, 1, Upper \cup Digit)
    IN  IF opens # {}
        THEN LET p == CHOOSE x \in opens : TRUE
             IN  [name |-> Strip(SubSeq(t, 1, p - 1)), code |-> SubSeq(t, p + 1, n - 1)]
        ELSE IF k >= 1 /\ k < n /\ t[k + 1] = " "
        THEN [name |-> Strip(SubSeq(t, k + 1, n)), code |-> SubSeq(t, 1, k)]
        ELSE [name |-> t, code |-> <<>>]

\* C17: parse_korean_text gives every text the code and the name of the first
\* of the three rules that applies: a trailing parenthesized identifier, else
\* a leading identifier followed by whitespace, else no code and the whole
\* text as the name.
C17_ParseFollowsThreeRules ==
    parsed.done =>
        /\ parsed.code = ClaimedParse(Strip(rawText)).code
        /\ parsed.name = ClaimedParse(Strip(rawText)).name

\* The three examples of C17 parse as the claim gives them.
C17_ExamplesParse ==
    (parsed.done /\ rawText \in ExampleTexts) =>
        /\ rawText = <<"K", "K", "(", "0", "0", ")">> => (parsed.name = <<"K", "K">> /\ parsed.code = <<"0", "0">>)
        /\ rawText = <<"0", "0", " ", "K", "K">> => (parsed.name = <<"K", "K">> /\ parsed.code = <<"0", "0">>)
        /\ rawText = <<"K", "K">> => (parsed.name = <<"K", "K">> /\ parsed.code = <<>>)

\* C18: a node whose code is empty has its raw text (the stripped text that
\* get_level_items stores as raw_text) as its name.
C18_EmptyCodeKeepsRawText ==
    (parsed.done /\ parsed.code = <<>>) => parsed.name = Strip(rawText)

\* The texts of the cells of a column that hold more than whitespace,
\* stripped, in row order.
RECURSIVE Identifiers(_)
Identifiers(column) ==
    IF column = <<>> THEN <<>>
    ELSE IF Head(column) = NaN \/ Strip(Head(column)) = <<>> THEN Identifiers(Tail(column))
    ELSE <<Strip(Head(column))>> \o Identifiers(Tail(column))

\* C20: read_excel_codes returns the stripped identifiers of the first column
\* in row order, with no entry for a blank or whitespace-only cell.
C20_CodesAreStrippedIdentifiers ==
    pc = "read" => codes = Identifiers(cells)

\* C19: the result of a fetch whose export block ran is 'no data' exactly
\* when nothing was saved and the no-data message is shown, the download
\* failure exactly when nothing was saved and the message is not shown, and
\* a success exactly when the spreadsheet was saved; each result is one of
\* the three.
C19_OutcomeSeparatesNoData ==
    [][(pc = "sd_download" /\ pc' = "loop")
          => LET r      == data'[Len(data')]
                 stored == downloads' # downloads
                 shown  == pages[page].open /\ noDataShown
             IN  /\ Len(data') = Len(data) + 1
                 /\ r.code = codes[iCode]
                 /\ (r.error = "no_data") <=> (~stored /\ shown)
                 /\ (r.error = "download_unavailable") <=> (~stored /\ ~shown)
                 /\ r.success <=> stored
                 /\ r.success <=> (r.error = "")
                 /\ r.error \in {"", "no_data", "download_unavailable"}]_vars

\* One code ended without data and the next with a failed download.
C19_Witness ==
    /\ pc = "loop"
    /\ Len(data) = 2
    /\ data[1].error = "no_data"
    /\ data[2].error = "download_unavailable"
    /\ noDataShown

\* C21: a run of the full-tree crawler never stands deeper than three levels
\* and ends.
C21_TraversalTerminates ==
    [](Len(path) <= 3) /\ <>(pc = "done")

\* A run that reached leaves has ended.
C21_Witness ==
    /\ pc = "done"
    /\ Cardinality(collected) >= 2
    /\ Len(data) >= 2

\* C22: the traversal comes to a node click or to a sibling extraction only
\* from an ensure_popup_page step, so that no other call on the page lies
\* between the check of the handle and the click or extraction.
C22_EnsureBeforeEveryUiCall ==
    [][(/\ pc' \in {"major_extract", "middle_extract", "minor_extract",
                    "major_click", "middle_click", "minor_click"}
        /\ pc' # pc)
          => pc \in {"major_ensure", "middle_ensure", "minor_ensure"}]_vars

\* C23: get_level_items returns no row that lies behind 10 consecutive slots
\* each of which is missing, not visible or without text: the scan has
\* stopped before it.
C23_EmptySlotCountsAsMiss ==
    [][MajorScanStep =>
          \A k \in DOMAIN majorItems' :
              ~\E a \in 0..majorItems'[k].idx :
                  /\ a + MissLimit <= majorItems'[k].idx
                  /\ \A i \in a..(a + MissLimit - 1) :
                         SlotAt(tree.maj, i) \in {MISSING, HIDDEN, ""}]_vars

\* C24: the items of each depth were read from that depth's own grid: major
\* items from grid 1, middle items from grid 2, minor items from grid 3.
C24_ItemsFromOwnContainer ==
    /\ \A i \in DOMAIN majorItems : majorItems[i].grid = 1
    /\ \A i \in DOMAIN middleItems : middleItems[i].grid = 2
    /\ \A i \in DOMAIN minorItems : minorItems[i].grid = 3

\* C25: no item of an extraction, and no record, carries the column-header
\* label as its text.
C25_HeaderLabelNeverANode ==
    /\ \A i \in DOMAIN majorItems : majorItems[i].text # HeaderLabel
    /\ \A i \in DOMAIN middleItems : middleItems[i].text # HeaderLabel
    /\ \A i \in DOMAIN minorItems : minorItems[i].text # HeaderLabel
    /\ \A i \in DOMAIN data : data[i].maj.text # HeaderLabel

\* The list an extraction step of the deep mapper leaves.
DeepExtracted ==
    IF pc = "major_extract" THEN majorItems'
    ELSE IF pc = "middle_extract" THEN middleItems' ELSE minorItems'

\* C26: the list of one extraction call holds no text twice, is in rendering
\* order, keeps the first row of each text, and holds every text the grid
\* renders, whatever earlier calls returned.
C26_UniqueWithinOneCall ==
    [][(pc \in {"major_extract", "middle_extract", "minor_extract"} /\ pc' # pc)
          => LET layout == Grid(pages[page], 1)
                 rows   == VisibleSlots(layout)
                 items  == DeepExtracted
             IN  /\ \A i, j \in DOMAIN items :
                        i < j => (items[i].text # items[j].text /\ items[i].idx < items[j].idx)
                 /\ \A k \in DOMAIN items :
                        /\ layout[rows[items[k].idx + 1]] = items[k].text
                        /\ \A j \in 1..items[k].idx : layout[rows[j]] # items[k].text
                 /\ \A r \in 1..Min(Len(rows), ElementCap) :
                        layout[rows[r]] \notin {"", HeaderLabel}
                            => \E k \in DOMAIN items : items[k].text = layout[rows[r]]]_vars

\* A grid that renders the same text twice was read a second time: the text
\* returned by the first call is returned again, once.
C26_Witness ==
    /\ pc = "middle_click"
    /\ tree.maj = <<"A", "A">>
    /\ Len(middleItems) = 1
    /\ middleItems[1].text = majorItems[1].text

\* C27: a sibling whose full path is already collected is not clicked: no
\* click of a leaf row leads to a path that is in collected_paths.
C27_VisitedSiblingNotClicked ==
    [][(pc = "click_2" /\ pc' = "leaf") => path' \notin collected]_vars

\* C28: when a full record is appended, the page shows its minor row as the
\* clicked one and the record's side-channel value is the search field of
\* that page.
C28_RecordAfterLeafClick ==
    [][\A k \in (Len(data) + 1)..Len(data') :
          data'[k].min # NoItem =>
              /\ pages[page].open
              /\ pages[page].selMin = data'[k].min.slot
              /\ data'[k].auto = pages[page].field]_vars

\* C29: in the calls of a fetch every click follows the wait for 'visible'
\* and the wait for 'enabled' of its own control, and the export click follows
\* the query click; without a query click there is no call on the export
\* control.
C29_GatedClicksInOrder ==
    \A i \in DOMAIN calls :
        /\ calls[i][2] = "click" =>
              /\ \E v \in 1..(i - 1) : calls[v] = <<calls[i][1], "visible">>
              /\ \E e \in 1..(i - 1) : calls[e] = <<calls[i][1], "enabled">>
        /\ calls[i][1] = "export" =>
              \E q \in 1..(i - 1) : calls[q] = <<"query", "click">>

\* A fetch whose export click was issued and one whose query gating failed.
C29_Witness ==
    /\ pc = "sd_search"
    /\ Len(data) = 1
    /\ Len(calls) = 6
    /\ calls[6] = <<"export", "click">>

\* C30: a result recorded for a code whose query showed the no-data message
\* is a success without a file, not a failure.
C30_NoDataIsSuccess ==
    \A i \in DOMAIN data : data[i].error = "no_data" => data[i].success

\* C31: the path never holds more than three texts, and leaf processing
\* starts with a path of exactly three: the texts of the selected major row,
\* of the selected middle row below it and of the selected minor row below
\* that.
C31_LeafPathIsMajorMiddleMinor ==
    /\ Len(path) <= 3
    /\ pc = "process" =>
          LET p == pages[page]
          IN  /\ Len(path) = 3
              /\ p.open /\ p.modal
              /\ p.selMaj # 0 /\ p.selMid # 0 /\ p.selMin # 0
              /\ path = <<Grid(p, 1)[p.selMaj], Grid(p, 2)[p.selMid], Grid(p, 3)[p.selMin]>>

\* C32: the list a selector cascade returns never holds elements of two
\* strategies, also when a call on an element raised part-way through a
\* strategy.
C32_CascadeNeverMixes ==
    pc = "scanned" =>
        \A i, j \in DOMAIN majorItems : majorItems[i].sel = majorItems[j].sel

\* C33: whenever the element loop of explore_classification_tree takes up an
\* element to click it, the classification modal is open on the page: no
\* sibling is taken up after the modal was closed and not opened again.
C33_SiblingClickOnOpenSurface ==
    \A d \in 0..2 :
        (/\ pc = (IF d = 0 THEN "click_0" ELSE IF d = 1 THEN "click_1" ELSE "click_2")
         /\ Pos(d) <= Len(Items(d)))
        => pages[page].open /\ pages[page].modal

\* C34: a download event leaves exactly one file in the download directory:
\* the download callback and the expect-download flow of the fetch never both
\* save the download of one event.
C34_OneFilePerDownload ==
    \A f, g \in downloads : f.event = g.event => f = g

\* C35: run processes each seed code once, in input order: the results are at
\* all times the outcomes of the first codes, entry i being that of code i,
\* and when the loop has ended there is one entry for every code, whatever
\* failed for single codes.
C35_OneResultPerCodeInOrder ==
    /\ Len(data) <= Len(codes)
    /\ \A i \in DOMAIN data : data[i].code = codes[i]
    /\ pc = "save" => Len(data) = Len(codes)

\* The loop ended over two different codes, the first failed, the second
\* was saved.
C35_Witness ==
    /\ pc = "save"
    /\ Len(codes) = 2
    /\ codes[1] # codes[2]
    /\ ~data[1].success
    /\ data[2].success

\* C36: in every result of a fetch, success is set exactly when a file name
\* is set; a success carries no error and a failure carries one.
C36_ResultFieldsAgree ==
    \A i \in DOMAIN data :
        /\ data[i].success <=> (data[i].filename # <<>>)
        /\ data[i].success => data[i].error = ""
        /\ ~data[i].success => data[i].error # ""

\* The result of a saved download and the result of a popup that could not
\* be reached stand side by side.
C36_Witness ==
    /\ \E i \in DOMAIN data : data[i].success /\ data[i].filename = FileName(codes[i])
    /\ \E i \in DOMAIN data : data[i].error = "popup_access_failed"

\* C37: a fetch for a seed code that has no mapping, or a mapping with an
\* empty major, middle or minor, ends at once with a failure result: no
\* control is waited for or clicked and the page stays as it is.
C37_NoUiActionWithoutMapping ==
    [][(/\ pc = "sdc_check"
        /\ LET entry == mapping[codes[iCode]]
           IN  entry = NoEntry \/ "" \in {entry.major, entry.middle, entry.minor})
       => /\ pc' = "loop"
          /\ Len(data') = Len(data) + 1
          /\ data'[Len(data')].code = codes[iCode]
          /\ ~data'[Len(data')].success
          /\ data'[Len(data')].error \in {"no_mapping", "incomplete_mapping"}
          /\ calls' = <<>>
          /\ pages' = pages]_vars

\* A code with an incomplete mapping was turned down after a code that was
\* navigated to.
C37_Witness ==
    /\ pc = "loop"
    /\ Len(data) = 2
    /\ data[1].success
    /\ data[2].error = "incomplete_mapping"
    /\ mapping[codes[2]].major = "A"
    /\ calls = <<>>

\* The clicks of the calls so far on the nodes of the tree, by level.
NavClicks ==
    SelectSeq(calls, LAMBDA c : c[1] \in {"major", "middle", "minor"} /\ c[2] = "click")

\* C38: navigate_classification_tree clicks at most one element per level, in
\* the order major, middle, minor, a level only after the level before it was
\* clicked; it returns True exactly when all three levels were clicked.
C38_OneClickPerLevelInOrder ==
    /\ Len(NavClicks) <= 3
    /\ \A i \in DOMAIN NavClicks : NavClicks[i][1] = NavLevels[i]
    /\ pc \in {"sdc_query", "sd_download"} => Len(NavClicks) = 3
    /\ (pc = "loop" /\ data # <<>> /\ data[Len(data)].error = "navigation_failed")
          => Len(NavClicks) < 3
    /\ pc = "nav_middle" => Len(NavClicks) = 1
    /\ pc = "nav_minor" => Len(NavClicks) = 2

\* The navigation of a fetch returned True after a selector of the minor
\* level had raised.
C38_Witness ==
    /\ pc = "sdc_query"
    /\ Len(NavClicks) = 3
    /\ <<"minor", "raised">> \in {calls[i] : i \in DOMAIN calls}

\* C39: get_level_items terminates on every layout, also on one whose slot
\* ids all hold rows, and with the miss limit of 10 and the index cap of 1000
\* it never examines a slot id above 1009.
C39_ScanStopsByIndexCap ==
    /\ []((pc = "major_extract" /\ scanFailures < MissLimit) => scanIndex <= 1009)
    /\ (pc = "major_extract") ~> (pc \in {"major_click", "close_modal"})

\* The rows with ids 0 to 999 were found and the scan examines id 1009, after
\* nine ids that hold no element.
C39_Witness ==
    /\ pc = "major_extract"
    /\ Len(majorItems) = IndexCap
    /\ scanIndex = 1009
    /\ scanFailures = MissLimit - 1

\* C16: after a sibling of depth d was processed and before the next sibling
\* of depth d is clicked, the modal is open and the ancestors on the path are
\* selected as they were just before the processed sibling was clicked.
C16_RestoredBeforeNextSibling ==
    \A d \in 0..2 :
        (/\ pc = (IF d = 0 THEN "click_0" ELSE IF d = 1 THEN "click_1" ELSE "click_2")
         /\ snap[d + 1] # NoSnap
         /\ Pos(d) <= Len(Items(d)))
            => /\ pages[page].modal
               /\ d >= 1 => pages[page].selMaj = snap[d + 1].selMaj
               /\ d = 2 => pages[page].selMid = snap[d + 1].selMid

\* C9: however a run ends after the browser was launched, the browser is
\* closed when run returns or raises.
C9_SessionClosedAtEnd ==
    (pc = "done" /\ browser # "none") => browser = "closed"

\* C10: no run ends with accumulated rows unwritten.
C10_FlushedOnAbort ==
    (pc = "done" /\ data # <<>>) => saved = data

====
